---- MODULE Spec2Model ----
(***************************************************************************)
(* State-machine model of the xenium chain engine (core/blockchain.go) and *)
(* of the consensus helpers it calls (leader draw, validator registry,     *)
(* state transition, PoH ticker, hashing and signing).                     *)
(*                                                                         *)
(* Abstractions:                                                           *)
(*  - SHA-256 digests are naturals below HashMod obtained by mixing the    *)
(*    hashed fields in the order the code writes them; a block hash also   *)
(*    carries the slot in its low digits, so that blocks of different      *)
(*    slots never collide.  Hex strings are compared as naturals.          *)
(*  - A key pair is a natural k > 0; the public key (hex) of k is k, the   *)
(*    nil private key and the empty public key are 0.  An ECDSA signature  *)
(*    is <<key, digest, nonce>>: it verifies under public key p over       *)
(*    digest d iff key = p and digest = d; the nonce is the signer's       *)
(*    randomness (rand.Reader).                                            *)
(*  - deterministicDraw is exact: DrawLimbs holds the first eight bytes of *)
(*    SHA-256(little-endian slot) as four 16-bit limbs.                    *)
(***************************************************************************)
EXTENDS Integers, Sequences, FiniteSets, TLC

(***************************************************************************)
(* Program constants                                                       *)
(***************************************************************************)
MinStake == 10
BlockReward == 1
SlashPenalty == 5
SlashPercent == 2
MaxMissedSlots == 3
SlotsPerEpoch == 50
JailEpochs == 2
TicksPerSlot == 20

(***************************************************************************)
(* Bounds of the model                                                     *)
(***************************************************************************)
\* slots the PoH may reach in the runs over the whole interface
MaxSlot == 2
\* slots the PoH may reach in the fork-choice runs
MaxForkSlot == 4
\* slots the PoH may reach in the equivocation runs
MaxEqSlot == 2
\* slots the PoH may reach in the two-engine runs
MaxDetSlot == 3
\* successful AddValidator calls per run
MaxAddValidator == 2
\* effective SetBalance calls per run
MaxSetBalance == 1
\* failing VerifyChain calls per run
MaxVerifyChain == 1
\* production calls per run that carry transactions
MaxTxCalls == 1
\* second blocks a leader signs for a slot it already produced, per run
MaxProduceAgain == 2
\* distinct ECDSA nonces a signer may draw
MaxNonce == 2
\* slots the PoH may reach in the missed-slot runs
MaxJailSlot == 6
\* slots the PoH may reach in the missed-slot runs while forks are built
MaxJailForkSlot == 5

\* the stake a validator may reach in the registry runs
MaxRegistryStake == 24

\* the calls made on the mempool
MaxPoolCalls == 4
\* ResetReorgStats calls per run
MaxResetReorgStats == 1
\* GetForkCandidates calls per run
MaxGetForkCandidates == 1
\* slots the PoH may reach in the snapshot runs
MaxSnapshotSlot == 3
\* slots the PoH may reach in the restore runs
MaxRestoreSlot == 2
\* SaveBlock calls per run
MaxSaveBlock == 3
\* SaveEpochSnapshot calls per run
MaxSaveEpochSnapshot == 1
\* RestoreFromStorage calls per run
MaxRestoreFromStorage == 1
\* NewNode calls per run
MaxNewNode == 1

(***************************************************************************)
(* Generic helpers                                                         *)
(***************************************************************************)
\* Go map read: the zero value when the key is absent
MapGet(m, k, zero) == IF k \in DOMAIN m THEN m[k] ELSE zero

\* Go map write m[k] = v
MapPut(m, k, v) == [x \in DOMAIN m \cup {k} |-> IF x = k THEN v ELSE m[x]]

\* Go delete(m, k)
MapDel(m, k) == [x \in DOMAIN m \ {k} |-> m[x]]

EmptyMap == [x \in {} |-> 0]

Min2(a, b) == IF a < b THEN a ELSE b

\* Body(v): the value v of a call is named by Body's parameter; the test has v
\* computed before Body starts, as a call returns before its result is used
Let(v, Body(_)) == IF {v} # {} THEN Body(v) ELSE Body(v)

\* the elements of a finite set of naturals in ascending order (sort.Strings)
RECURSIVE SortedSeq(_)
SortedSeq(S) ==
    IF S = {} THEN <<>>
    ELSE LET m == CHOOSE x \in S : \A y \in S : x <= y
         IN <<m>> \o SortedSeq(S \ {m})

(***************************************************************************)
(* Digests                                                                 *)
(***************************************************************************)
HashMod == 65521
SlotSpace == 64

\* one absorption step of the digest: the running value and the next field
Absorb(h, x) == ((h * 31) + (x % HashMod) + 7) % HashMod

\* the digest state d: the running value and the fields still to absorb
RECURSIVE AbsorbRest(_)
AbsorbRest(d) ==
    IF d.rest = <<>> THEN d.h
    ELSE AbsorbRest([h |-> Absorb(d.h, Head(d.rest)), rest |-> Tail(d.rest)])

\* the digest of the fields, in order, under the domain tag h
AbsorbAll(h, fields) == AbsorbRest([h |-> h, rest |-> fields])

\* sha256.Sum256(nil): the root of no transactions and of the empty state
EmptyDigest == AbsorbAll(0, <<>>)

\* validator names as the code orders them (sort.Strings)
NameCode(name) ==
    CASE name = "Alice" -> 1
      [] name = "Bob" -> 2
      [] name = "Charlie" -> 3
      [] name = "genesis" -> 9
      [] OTHER -> 0

GENESIS == 0

HashBlock(index, prevHash, slot, tick, validator, txRoot, stateRoot, pohHash) ==
    (AbsorbAll(1, <<index, prevHash, slot, tick, NameCode(validator),
                    txRoot, stateRoot, pohHash>>) * SlotSpace)
    + (slot % SlotSpace) + 1

AddressFromPubKey(pubKeyHex) == 100 + pubKeyHex

HashTx(tx) == AbsorbAll(2, <<tx.From, tx.To, tx.Amount, tx.Fee, tx.Nonce, tx.PubKey>>)

RECURSIVE TxDigests(_)
TxDigests(txs) ==
    IF txs = <<>> THEN <<>> ELSE <<HashTx(Head(txs))>> \o TxDigests(Tail(txs))

TxRoot(txs) ==
    IF Len(txs) = 0 THEN EmptyDigest
    ELSE AbsorbAll(3, TxDigests(txs))

RECURSIVE StateSegments(_, _)
StateSegments(state, keys) ==
    IF keys = <<>> THEN <<>>
    ELSE <<Head(keys), state[Head(keys)], 0>> \o StateSegments(state, Tail(keys))

\* "address:balance|nonce;" over the sorted addresses; the balance-only state
\* of the engine has nonce 0
StateRoot(state) ==
    IF DOMAIN state = {} THEN EmptyDigest
    ELSE AbsorbAll(4, StateSegments(state, SortedSeq(DOMAIN state)))

(***************************************************************************)
(* Signatures                                                              *)
(***************************************************************************)
NoSignature == <<>>

PubKeyOf(priv) == priv

EcdsaSign(priv, digest, nonce) == <<PubKeyOf(priv), digest, nonce>>

EcdsaVerify(pub, digest, sig) ==
    /\ Len(sig) = 3
    /\ sig[1] = pub
    /\ sig[2] = digest

SignTransaction(priv, tx, nonce) ==
    LET t1 == [tx EXCEPT !.PubKey = PubKeyOf(priv)]
        t2 == [t1 EXCEPT !.From = AddressFromPubKey(t1.PubKey)]
        digest == HashTx(t2)
    IN [t2 EXCEPT !.Hash = digest, !.Signature = EcdsaSign(priv, digest, nonce)]

\* "nil" or the error
VerifyTransactionSignature(tx) ==
    IF tx.PubKey = 0 \/ tx.Signature = NoSignature
        THEN "missing pubkey or signature"
    ELSE IF tx.From # AddressFromPubKey(tx.PubKey)
        THEN "from address does not match pubkey"
    ELSE IF tx.Hash = 0
        THEN "missing tx hash"
    ELSE IF tx.Hash # HashTx(tx)
        THEN "tx hash mismatch"
    ELSE IF ~EcdsaVerify(tx.PubKey, HashTx(tx), tx.Signature)
        THEN "invalid signature"
    ELSE "nil"

\* block.Signature and block.Hash set from the header digest
SignBlock(priv, block, nonce) ==
    LET digest == HashBlock(block.Index, block.PrevHash, block.Slot, block.Tick,
                            block.Validator, block.TxRoot, block.StateRoot,
                            block.PoHHash)
    IN [block EXCEPT !.Signature = EcdsaSign(priv, digest, nonce),
                     !.Hash = digest]

VerifyBlockSignature(block, pubKeyHex) ==
    LET digest == HashBlock(block.Index, block.PrevHash, block.Slot, block.Tick,
                            block.Validator, block.TxRoot, block.StateRoot,
                            block.PoHHash)
    IN IF pubKeyHex = 0 THEN "missing validator pubkey"
       ELSE IF Len(block.Signature) = 0 THEN "missing block signature"
       ELSE IF ~EcdsaVerify(pubKeyHex, digest, block.Signature)
           THEN "invalid block signature"
       ELSE IF block.Hash # digest THEN "invalid block hash"
       ELSE "nil"

(***************************************************************************)
(* Proof-of-history ticker                                                 *)
(***************************************************************************)
HashPoH(prev, tick) == AbsorbAll(5, <<prev, tick>>)

HashPoHSeed(nonce) == AbsorbAll(6, <<nonce>>)

NewPoH(seed) == [CurrentTick |-> 0, Hash |-> seed]

\* Tick advancing the ticker by one tick whatever n is
Tick_Once(p, n) ==
    [CurrentTick |-> p.CurrentTick + 1, Hash |-> HashPoH(p.Hash, p.CurrentTick + 1)]

\* the ticker after n ticks: the first n \div 2 of them, then the others
RECURSIVE Tick(_, _)
Tick(p, n) ==
    IF n = 0 THEN p
    ELSE IF n = 1 THEN [CurrentTick |-> p.CurrentTick + 1,
                        Hash |-> HashPoH(p.Hash, p.CurrentTick + 1)]
    ELSE Let(Tick(p, n \div 2), LAMBDA half : Tick(half, n - (n \div 2)))

\* Slot with slots twice as long as the ticks a call advances
Slot_HalfRate(p) == p.CurrentTick \div (2 * TicksPerSlot)

Slot(p) == p.CurrentTick \div TicksPerSlot

(***************************************************************************)
(* Validator registry                                                      *)
(***************************************************************************)
NewStats == [MissedSlots |-> 0, JailedUntilEpoch |-> 0, Slashed |-> FALSE]

\* the registry and the stats after the call, and the error ("nil": none)
AddValidator(validators, stats, name, stake, pubKey, priv) ==
    IF name = "" THEN
        [validators |-> validators, stats |-> stats,
         err |-> "validator name is required"]
    ELSE IF stake <= 0 THEN
        [validators |-> validators, stats |-> stats,
         err |-> "stake must be positive"]
    ELSE IF pubKey = 0 THEN
        [validators |-> validators, stats |-> stats,
         err |-> "validator pubkey is required"]
    ELSE IF name \notin DOMAIN validators THEN
        IF stake < MinStake THEN
            [validators |-> validators, stats |-> stats,
             err |-> "stake below minimum"]
        ELSE
            [validators |->
                MapPut(validators, name,
                       [Name |-> name, Stake |-> stake, PubKey |-> pubKey,
                        PrivKey |-> priv, LastSlot |-> 0]),
             stats |-> IF name \in DOMAIN stats THEN stats
                       ELSE MapPut(stats, name, NewStats),
             err |-> "nil"]
    ELSE
        LET v == validators[name]
        IN [validators |->
                [validators EXCEPT ![name] =
                    [v EXCEPT !.Stake = v.Stake + stake,
                              !.PubKey = IF v.PubKey = 0 THEN pubKey ELSE v.PubKey,
                              !.PrivKey = IF v.PrivKey = 0 THEN priv ELSE v.PrivKey]],
            stats |-> stats,
            err |-> "nil"]

\* the registry after the call, and the error ("nil": none)
AddStake(validators, name, amount) ==
    IF amount <= 0 THEN
        [validators |-> validators, err |-> "stake amount must be positive"]
    ELSE IF name \notin DOMAIN validators THEN
        [validators |-> validators, err |-> "validator not found"]
    ELSE [validators |-> [validators EXCEPT ![name].Stake = @ + amount],
          err |-> "nil"]

\* Unstake without the minimum on what remains
Unstake_NoMinimum(validators, name, amount) ==
    IF amount <= 0 THEN
        [validators |-> validators, err |-> "unstake amount must be positive"]
    ELSE IF name \notin DOMAIN validators THEN
        [validators |-> validators, err |-> "validator not found"]
    ELSE IF amount > validators[name].Stake THEN
        [validators |-> validators, err |-> "unstake exceeds stake"]
    ELSE IF validators[name].Stake - amount = 0 THEN
        [validators |-> MapDel(validators, name), err |-> "nil"]
    ELSE [validators |-> [validators EXCEPT ![name].Stake = @ - amount],
          err |-> "nil"]

Unstake(validators, name, amount) ==
    IF amount <= 0 THEN
        [validators |-> validators, err |-> "unstake amount must be positive"]
    ELSE IF name \notin DOMAIN validators THEN
        [validators |-> validators, err |-> "validator not found"]
    ELSE IF amount > validators[name].Stake THEN
        [validators |-> validators, err |-> "unstake exceeds stake"]
    ELSE IF validators[name].Stake - amount > 0
              /\ validators[name].Stake - amount < MinStake THEN
        [validators |-> validators, err |-> "stake below minimum"]
    ELSE IF validators[name].Stake - amount = 0 THEN
        [validators |-> MapDel(validators, name), err |-> "nil"]
    ELSE [validators |-> [validators EXCEPT ![name].Stake = @ - amount],
          err |-> "nil"]

RewardValidator(validators, name) ==
    IF name \in DOMAIN validators
    THEN [validators EXCEPT ![name].Stake = @ + BlockReward]
    ELSE validators

SlashValidator(validators, name, amount) ==
    IF amount <= 0 THEN validators
    ELSE IF name \notin DOMAIN validators THEN validators
    ELSE IF amount >= validators[name].Stake THEN MapDel(validators, name)
    ELSE IF validators[name].Stake - amount < MinStake THEN MapDel(validators, name)
    ELSE [validators EXCEPT ![name].Stake = @ - amount]

\* SlashValidatorPercent without the minimum of 1
SlashValidatorPercent_NoFloor(validators, name, percent) ==
    IF percent <= 0 THEN validators
    ELSE IF name \notin DOMAIN validators THEN validators
    ELSE SlashValidator(validators, name, (validators[name].Stake * percent) \div 100)

SlashValidatorPercent(validators, name, percent) ==
    IF percent <= 0 THEN validators
    ELSE IF name \notin DOMAIN validators THEN validators
    ELSE LET amount == (validators[name].Stake * percent) \div 100
         IN SlashValidator(validators, name, IF amount = 0 THEN 1 ELSE amount)

IsJailed(stats, name, slot) ==
    IF name \notin DOMAIN stats THEN FALSE
    ELSE (slot \div SlotsPerEpoch) < stats[name].JailedUntilEpoch

(***************************************************************************)
(* Leader draw                                                             *)
(***************************************************************************)
\* The first eight bytes of SHA-256(little-endian uint64 slot), read as a
\* little-endian uint64 and split into 16-bit limbs, most significant first;
\* entry slot + 1 is the word of slot.
DrawLimbs ==
    << <<31243, 33185, 62832, 21935>>,
       <<42559, 16852, 13985, 40828>>,
       <<17604, 50419, 4737, 28376>>,
       <<5533, 20233, 11570, 48693>>,
       <<40005, 29251, 36391, 41200>>,
       <<44586, 59988, 60902, 16113>>,
       <<3359, 56348, 11252, 55075>>,
       <<22825, 16112, 49311, 59562>>,
       <<37115, 61040, 48490, 49516>>,
       <<19816, 21260, 39263, 48587>>,
       <<34933, 11980, 30194, 4513>>,
       <<6550, 61373, 40631, 53599>>,
       <<21325, 61103, 10206, 3362>> >>

\* n % max for the 64-bit word n of the slot (max < 2^15)
deterministicDraw(slot, max) ==
    LET l == DrawLimbs[slot + 1]
        r1 == l[1] % max
        r2 == ((r1 * 65536) + l[2]) % max
        r3 == ((r2 * 65536) + l[3]) % max
    IN ((r3 * 65536) + l[4]) % max

RECURSIVE SumStakes(_, _)
SumStakes(stakes, names) ==
    IF names = {} THEN 0
    ELSE LET n == CHOOSE x \in names : TRUE
         IN stakes[n] + SumStakes(stakes, names \ {n})

\* the names of a map in the reverse of sort.Strings order
sortedStakeNames_Descending(m) ==
    LET codes == SortedSeq({NameCode(n) : n \in DOMAIN m})
    IN [i \in 1..Len(codes) |->
            CHOOSE n \in DOMAIN m : NameCode(n) = codes[(Len(codes) + 1) - i]]

\* the names of a map in sort.Strings order
sortedStakeNames(m) ==
    LET codes == SortedSeq({NameCode(n) : n \in DOMAIN m})
    IN [i \in 1..Len(codes) |-> CHOOSE n \in DOMAIN m : NameCode(n) = codes[i]]

RECURSIVE LeaderWalk(_, _, _, _)
LeaderWalk(stakes, names, draw, running) ==
    IF names = <<>> THEN "genesis"
    ELSE LET r == running + stakes[Head(names)]
         IN IF draw < r THEN Head(names)
            ELSE LeaderWalk(stakes, Tail(names), draw, r)

LeaderFromSnapshot(slot, stakes) ==
    LET totalStake == SumStakes(stakes, DOMAIN stakes)
    IN IF totalStake = 0 THEN "genesis"
       ELSE LeaderWalk(stakes, sortedStakeNames(stakes),
                       deterministicDraw(slot, totalStake), 0)

(***************************************************************************)
(* State transition and the per-block checks                               *)
(***************************************************************************)
RECURSIVE VerifyTxFrom(_, _)
VerifyTxFrom(txs, i) ==
    IF i > Len(txs) THEN "nil"
    ELSE IF VerifyTransactionSignature(txs[i]) # "nil"
        THEN "invalid transaction signature at index"
    ELSE VerifyTxFrom(txs, i + 1)

VerifyTransactions(txs) == VerifyTxFrom(txs, 1)

\* ApplyFrom without the balance check: the sender may be overdrawn
RECURSIVE ApplyFrom_Overdraft(_, _, _)
ApplyFrom_Overdraft(next, txs, i) ==
    IF i > Len(txs) THEN [state |-> next, err |-> "nil"]
    ELSE LET tx == txs[i]
         IN IF tx.Amount <= 0 THEN [state |-> EmptyMap, err |-> "invalid amount"]
            ELSE IF tx.From = 0 THEN [state |-> EmptyMap, err |-> "missing sender"]
            ELSE LET debited == MapPut(next, tx.From, MapGet(next, tx.From, 0) - tx.Amount)
                     credited == MapPut(debited, tx.To, MapGet(debited, tx.To, 0) + tx.Amount)
                 IN ApplyFrom_Overdraft(credited, txs, i + 1)

\* [state, err]: the copy with the transactions applied in order, or the error
\* of the first transaction that cannot be applied
RECURSIVE ApplyFrom(_, _, _)
ApplyFrom(next, txs, i) ==
    IF i > Len(txs) THEN [state |-> next, err |-> "nil"]
    ELSE LET tx == txs[i]
         IN IF tx.Amount <= 0 THEN [state |-> EmptyMap, err |-> "invalid amount"]
            ELSE IF tx.From = 0 THEN [state |-> EmptyMap, err |-> "missing sender"]
            ELSE IF MapGet(next, tx.From, 0) < tx.Amount
                THEN [state |-> EmptyMap, err |-> "insufficient balance"]
            ELSE LET debited == MapPut(next, tx.From, MapGet(next, tx.From, 0) - tx.Amount)
                     credited == MapPut(debited, tx.To, MapGet(debited, tx.To, 0) + tx.Amount)
                 IN ApplyFrom(credited, txs, i + 1)

ApplyTransactions(state, txs) == ApplyFrom(state, txs, 1)

VerifyBlockLink(prev, cur) ==
    IF cur.PrevHash # prev.Hash THEN "invalid prev hash"
    ELSE IF cur.Slot < prev.Slot THEN "slot regressed"
    ELSE "nil"

\* the loop of VerifyPoH: the hash after the ticks expectedTick+1 .. cur.Tick
PoHAdvance(expectedHash, expectedTick, last) ==
    Tick([CurrentTick |-> expectedTick, Hash |-> expectedHash], last - expectedTick).Hash

\* [hash, tick, err]
VerifyPoH(expectedHash, expectedTick, cur) ==
    IF cur.Tick <= expectedTick THEN
        [hash |-> expectedHash, tick |-> expectedTick, err |-> "tick not increasing"]
    ELSE IF cur.Tick \div TicksPerSlot # cur.Slot THEN
        [hash |-> expectedHash, tick |-> expectedTick, err |-> "slot mismatch"]
    ELSE LET h == PoHAdvance(expectedHash, expectedTick, cur.Tick)
         IN IF cur.PoHHash # h
            THEN [hash |-> h, tick |-> expectedTick, err |-> "invalid poh hash"]
            ELSE [hash |-> h, tick |-> cur.Tick, err |-> "nil"]

VerifyBlockHash(cur) ==
    IF cur.Hash # HashBlock(cur.Index, cur.PrevHash, cur.Slot, cur.Tick, cur.Validator,
                            cur.TxRoot, cur.StateRoot, cur.PoHHash)
    THEN "invalid hash"
    ELSE "nil"

VerifyValidator(name, validators) ==
    IF name \notin DOMAIN validators THEN "unknown validator"
    ELSE IF validators[name].Stake < MinStake THEN "unknown validator"
    ELSE "nil"

VerifyLeaderSnapshot(slot, validator, stakes) ==
    IF LeaderFromSnapshot(slot, stakes) # validator THEN "wrong leader" ELSE "nil"

(***************************************************************************)
(* Chain engine.  An engine is a record bc with the fields of Blockchain;  *)
(* Logger holds the lines logged during the current call.  An operator     *)
(* that both changes the engine and returns a value yields a record with   *)
(* the engine after the call in its field bc.                              *)
(***************************************************************************)
LogLine(level, what, depth, divergeSlot) ==
    [level |-> level, what |-> what, depth |-> depth, divergeSlot |-> divergeSlot]

Logged(bc, line) == [bc EXCEPT !.Logger = Append(@, line)]

\* math/rand: the first Int63 of a source seeded with seed
RandInt63(seed) == AbsorbAll(7, <<seed>>)

\* RandSeed reading the clock whatever the configuration says
RandSeed_ClockOnly(cfg, clock) == clock

\* the seed of the engine's random source
RandSeed(cfg, clock) ==
    IF cfg.DeterministicPoH THEN cfg.PoHSeed
    ELSE IF clock # 0 THEN clock
    ELSE 0

createGenesisBlock(seed) ==
    [Index |-> 0, PrevHash |-> GENESIS, Slot |-> 0, Tick |-> 0,
     Validator |-> "genesis", TxRoot |-> TxRoot(<<>>), StateRoot |-> StateRoot(EmptyMap),
     PoHHash |-> HashPoHSeed(RandInt63(seed)), Signature |-> NoSignature,
     Hash |-> HashBlock(0, GENESIS, 0, 0, "genesis", TxRoot(<<>>), StateRoot(EmptyMap),
                        HashPoHSeed(RandInt63(seed))),
     Transactions |-> <<>>]

\* insertBlock indexing the block without its parent link
insertBlock_NoParent(bc, block) ==
    [bc EXCEPT !.Blocks = MapPut(bc.Blocks, block.Hash, block)]

insertBlock(bc, block) ==
    [bc EXCEPT !.Blocks = MapPut(bc.Blocks, block.Hash, block),
               !.Parents = MapPut(bc.Parents, block.Hash, block.PrevHash)]

chainTipSlot(bc) ==
    IF Len(bc.Chain) = 0 THEN 0 ELSE bc.Chain[Len(bc.Chain)].Slot

epochForSlot(bc, slot) ==
    IF bc.Config.EpochLength = 0 THEN 0 ELSE slot \div bc.Config.EpochLength

\* the last block of the chain after genesis that has the slot
lastAtSlot(chain, slot) ==
    CHOOSE i \in 2..Len(chain) :
        /\ chain[i].Slot = slot
        /\ \A j \in (i + 1)..Len(chain) : chain[j].Slot # slot

\* the loop over the chain writes each block's producer at its slot
rebuildSlotMap(bc) ==
    [bc EXCEPT !.SlotProduced =
        [slot \in {bc.Chain[i].Slot : i \in 2..Len(bc.Chain)} |->
            bc.Chain[lastAtSlot(bc.Chain, slot)].Validator]]

\* [state, err]: r with the transactions of chain[i..] applied while none fails
RECURSIVE replayFrom(_, _, _)
replayFrom(r, chain, i) ==
    IF r.err # "nil" \/ i > Len(chain) THEN r
    ELSE replayFrom(ApplyTransactions(r.state, chain[i].Transactions), chain, i + 1)

\* [state, err]: the balances after the blocks of the chain that follow genesis
replay(genesisState, chain) == replayFrom([state |-> genesisState, err |-> "nil"], chain, 2)

\* rebuildStateFromCanonical applying the tip's transactions to the current
\* State instead of replaying the chain
rebuildStateFromCanonical_OnState(bc) ==
    Let(ApplyTransactions(bc.State, bc.Chain[Len(bc.Chain)].Transactions), LAMBDA r :
        IF r.err # "nil" THEN bc ELSE [bc EXCEPT !.State = r.state])

rebuildStateFromCanonical(bc) ==
    Let(replay(bc.Genesis, bc.Chain), LAMBDA r :
        IF r.err # "nil" THEN bc ELSE [bc EXCEPT !.State = r.state])

\* walkBack without the reversal: the chain runs from the tip to genesis
RECURSIVE walkBack_TipFirst(_, _, _)
walkBack_TipFirst(blocks, curHash, acc) ==
    IF curHash \notin DOMAIN blocks THEN [chain |-> acc, ok |-> FALSE]
    ELSE IF blocks[curHash].PrevHash = GENESIS
         THEN [chain |-> acc \o <<blocks[curHash]>>, ok |-> TRUE]
         ELSE walkBack_TipFirst(blocks, blocks[curHash].PrevHash,
                                acc \o <<blocks[curHash]>>)

\* the blocks from curHash back to genesis, oldest first; ok is FALSE when a
\* block is missing
RECURSIVE walkBack(_, _, _)
walkBack(blocks, curHash, acc) ==
    IF curHash \notin DOMAIN blocks THEN [chain |-> acc, ok |-> FALSE]
    ELSE IF blocks[curHash].PrevHash = GENESIS
         THEN [chain |-> <<blocks[curHash]>> \o acc, ok |-> TRUE]
         ELSE walkBack(blocks, blocks[curHash].PrevHash, <<blocks[curHash]>> \o acc)

\* [chain, err]
chainFromTip(bc, tipHash) ==
    IF tipHash = 0 THEN [chain |-> <<>>, err |-> "empty tip hash"]
    ELSE Let(walkBack(bc.Blocks, tipHash, <<>>), LAMBDA w :
            IF w.ok THEN [chain |-> w.chain, err |-> "nil"]
            ELSE [chain |-> <<>>, err |-> "missing block in chain"])

rebuildCanonicalChain(bc) ==
    IF bc.CanonicalTip = 0 THEN [bc EXCEPT !.Chain = <<>>]
    ELSE rebuildStateFromCanonical(rebuildSlotMap(
            [bc EXCEPT !.Chain = walkBack(bc.Blocks, bc.CanonicalTip, <<>>).chain]))

\* updateFinality counting the finalized slot from the start of its epoch
updateFinality_InEpoch(bc) ==
    IF chainTipSlot(bc) < bc.Config.FinalitySlots THEN bc
    ELSE [bc EXCEPT !.FinalizedSlot =
            (chainTipSlot(bc) - bc.Config.FinalitySlots) % bc.Config.EpochLength]

updateFinality(bc) ==
    IF chainTipSlot(bc) < bc.Config.FinalitySlots THEN bc
    ELSE IF chainTipSlot(bc) - bc.Config.FinalitySlots > bc.FinalizedSlot
         THEN [bc EXCEPT !.FinalizedSlot = chainTipSlot(bc) - bc.Config.FinalitySlots]
         ELSE bc

(***************************************************************************)
(* Epoch snapshots                                                         *)
(***************************************************************************)
\* snapshotMembers without the jail test
snapshotMembers_WithJailed(bc, epoch) ==
    {n \in DOMAIN bc.Validators : ~(bc.Validators[n].Stake < MinStake)}

\* the validators a snapshot of the epoch takes from the live registry
snapshotMembers(bc, epoch) ==
    {n \in DOMAIN bc.Validators :
        /\ ~(bc.Validators[n].Stake < MinStake)
        /\ ~IsJailed(bc.Stats, n, epoch * bc.Config.EpochLength)}

\* the snapshot of the epoch taken from the live registry and stored
freezeSnapshot(bc, epoch, members) ==
    [bc EXCEPT !.snapshots =
        MapPut(bc.snapshots, epoch,
               [Epoch |-> epoch,
                TotalStake |-> SumStakes([n \in members |-> bc.Validators[n].Stake],
                                         members),
                Validators |-> [n \in members |-> bc.Validators[n].Stake]]),
               !.currentEpoch = epoch]

\* ensureSnapshot without the early return on an existing epoch
ensureSnapshot_Recompute(bc, epoch) ==
    freezeSnapshot(bc, epoch, snapshotMembers(bc, epoch))

ensureSnapshot(bc, epoch) ==
    IF epoch \in DOMAIN bc.snapshots THEN bc
    ELSE freezeSnapshot(bc, epoch, snapshotMembers(bc, epoch))

ensureSnapshotForSlot(bc, slot) == ensureSnapshot(bc, epochForSlot(bc, slot))

\* [bc, snap]: the engine after the lazy freeze, and the snapshot of the slot
snapshotForSlot(bc, slot) ==
    Let(ensureSnapshot(bc, epochForSlot(bc, slot)), LAMBDA b :
        [bc |-> b, snap |-> b.snapshots[epochForSlot(bc, slot)]])

\* snapshotStake reading the stake of the live registry
snapshotStake_Live(bc, slot, validator) ==
    Let(snapshotForSlot(bc, slot), LAMBDA s :
        [bc |-> s.bc,
         stake |-> IF validator \in DOMAIN s.bc.Validators
                   THEN s.bc.Validators[validator].Stake ELSE 0])

\* [bc, stake]
snapshotStake(bc, slot, validator) ==
    Let(snapshotForSlot(bc, slot), LAMBDA s :
        [bc |-> s.bc, stake |-> MapGet(s.snap.Validators, validator, 0)])

\* leaderForSlot drawing over the stakes of the live registry
leaderForSlot_Live(bc, slot) ==
    Let(snapshotForSlot(bc, slot), LAMBDA s :
        [bc |-> s.bc,
         leader |-> LeaderFromSnapshot(slot,
                        [n \in DOMAIN s.bc.Validators |-> s.bc.Validators[n].Stake])])

\* [bc, leader]
leaderForSlot(bc, slot) ==
    Let(snapshotForSlot(bc, slot), LAMBDA s :
        [bc |-> s.bc, leader |-> LeaderFromSnapshot(slot, s.snap.Validators)])

\* [bc, stake]
activeStake(bc) ==
    Let(snapshotForSlot(bc, chainTipSlot(bc)), LAMBDA s :
        [bc |-> s.bc, stake |-> s.snap.TotalStake])

(***************************************************************************)
(* Fork choice and the reorg guard                                         *)
(***************************************************************************)
\* [bc, weight]: w with the snapshot stake of the block's producer added
scored(w, block) ==
    Let(snapshotStake(w.bc, block.Slot, block.Validator), LAMBDA st :
        [bc |-> st.bc, weight |-> w.weight + st.stake])

\* [bc, weight]: the snapshot stake of every block from cur back to genesis
RECURSIVE scoreWalk(_, _)
scoreWalk(w, cur) ==
    IF cur = GENESIS \/ cur \notin DOMAIN w.bc.Blocks THEN w
    ELSE scoreWalk(scored(w, w.bc.Blocks[cur]), w.bc.Blocks[cur].PrevHash)

\* [bc, score]
scoreTip(bc, tipHash) ==
    IF tipHash \notin DOMAIN bc.Blocks
    THEN [bc |-> bc, score |-> [Slot |-> 0, CumulativeWeight |-> 0, Hash |-> 0]]
    ELSE Let(scoreWalk([bc |-> bc, weight |-> 0], tipHash), LAMBDA w :
            [bc |-> w.bc,
             score |-> [Slot |-> bc.Blocks[tipHash].Slot, CumulativeWeight |-> w.weight,
                        Hash |-> tipHash]])

\* betterScore with the slot compared before the weight
betterScore_SlotFirst(a, b) ==
    IF a.Slot # b.Slot THEN a.Slot > b.Slot
    ELSE IF a.CumulativeWeight # b.CumulativeWeight
        THEN a.CumulativeWeight > b.CumulativeWeight
    ELSE a.Hash < b.Hash

betterScore(a, b) ==
    IF a.CumulativeWeight # b.CumulativeWeight
        THEN a.CumulativeWeight > b.CumulativeWeight
    ELSE IF a.Slot # b.Slot THEN a.Slot > b.Slot
    ELSE a.Hash < b.Hash

\* [bc, cache, weight]: the cumulative weight of the block of the hash, from
\* the cache when it holds it, and entered in the cache otherwise
RECURSIVE cumulativeWeightCached(_, _, _)
cumulativeWeightCached(bc, hash, cache) ==
    IF hash \in DOMAIN cache
    THEN [bc |-> bc, cache |-> cache, weight |-> cache[hash]]
    ELSE IF hash \notin DOMAIN bc.Blocks
    THEN [bc |-> bc, cache |-> cache, weight |-> 0]
    ELSE
      Let(snapshotStake(bc, bc.Blocks[hash].Slot, bc.Blocks[hash].Validator), LAMBDA st :
        IF bc.Blocks[hash].PrevHash # GENESIS
        THEN Let(cumulativeWeightCached(st.bc, bc.Blocks[hash].PrevHash, cache),
                 LAMBDA parent :
                    [bc |-> parent.bc,
                     cache |-> MapPut(parent.cache, hash, st.stake + parent.weight),
                     weight |-> st.stake + parent.weight])
        ELSE [bc |-> st.bc, cache |-> MapPut(cache, hash, st.stake),
              weight |-> st.stake])

\* [bc, cache, score]
scoreTipCached(bc, tipHash, cache) ==
    IF tipHash \notin DOMAIN bc.Blocks
    THEN [bc |-> bc, cache |-> cache,
          score |-> [Slot |-> 0, CumulativeWeight |-> 0, Hash |-> 0]]
    ELSE Let(cumulativeWeightCached(bc, tipHash, cache), LAMBDA w :
            [bc |-> w.bc, cache |-> w.cache,
             score |-> [Slot |-> bc.Blocks[tipHash].Slot, CumulativeWeight |-> w.weight,
                        Hash |-> tipHash]])

\* hasChild marking the parents of the canonical blocks only
hasChild_CanonicalOnly(bc) ==
    {bc.Chain[i].PrevHash : i \in 1..Len(bc.Chain)} \ {0, GENESIS}

\* the hashes marked in hasChild: the parents on record, "" and GENESIS aside
hasChild(bc) == {bc.Parents[h] : h \in DOMAIN bc.Parents} \ {0, GENESIS}

\* the comparator of the sort.Slice in GetForkCandidates
candidateLess(a, b) ==
    IF a.CumulativeWeight # b.CumulativeWeight
        THEN a.CumulativeWeight > b.CumulativeWeight
    ELSE IF a.Slot # b.Slot THEN a.Slot > b.Slot
    ELSE a.Hash < b.Hash

\* the outcomes of sort.Slice: every arrangement of the candidates in which
\* none is less than one before it
sortCandidates(list) ==
    {s \in {[i \in 1..Len(list) |-> list[p[i]]] : p \in Permutations(1..Len(list))} :
        \A i \in 1..Len(s) : \A j \in (i + 1)..Len(s) : ~candidateLess(s[j], s[i])}

\* [bc, cache, candidates]: the range over bc.Blocks from the i-th key of the
\* order on, a map being ranged over in an order the language leaves open
RECURSIVE rangeBlocks(_, _, _)
rangeBlocks(v, order, i) ==
    IF i > Len(order) THEN v
    ELSE IF order[i] = 0 \/ order[i] \in hasChild(v.bc)
        THEN rangeBlocks(v, order, i + 1)
    ELSE
      Let(scoreTipCached(v.bc, order[i], v.cache), LAMBDA s :
        rangeBlocks([bc |-> s.bc, cache |-> s.cache,
                     candidates |-> Append(v.candidates,
                         [Hash |-> order[i],
                          Slot |-> s.score.Slot,
                          CumulativeWeight |-> s.score.CumulativeWeight,
                          Parent |-> v.bc.Blocks[order[i]].PrevHash])],
                    order, i + 1))

\* [bc, candidates]: the candidates before the sort, the map ranged over in
\* the given order of its keys
GetForkCandidates(bc, order) ==
    IF DOMAIN bc.Blocks = {} THEN [bc |-> bc, candidates |-> <<>>]
    ELSE Let(rangeBlocks([bc |-> bc, cache |-> EmptyMap, candidates |-> <<>>], order, 1),
             LAMBDA v : [bc |-> v.bc, candidates |-> v.candidates])

\* the least weight gain a tip change needs, from the active stake
minDelta(active, percent) ==
    IF (active * percent) \div 100 = 0 THEN 1 ELSE (active * percent) \div 100

\* weightDeltaSatisfied asking only for a heavier chain
weightDeltaSatisfied_AnyGain(bc, oldWeight, newWeight) ==
    IF bc.Config.MinReorgWeightDeltaP <= 0 THEN [bc |-> bc, ok |-> TRUE]
    ELSE [bc |-> activeStake(bc).bc, ok |-> newWeight > oldWeight]

\* [bc, ok]
weightDeltaSatisfied(bc, oldWeight, newWeight) ==
    IF bc.Config.MinReorgWeightDeltaP <= 0 THEN [bc |-> bc, ok |-> TRUE]
    ELSE IF newWeight <= oldWeight THEN [bc |-> bc, ok |-> FALSE]
    ELSE Let(activeStake(bc), LAMBDA a :
            [bc |-> a.bc,
             ok |-> newWeight >= oldWeight
                        + minDelta(a.stake, bc.Config.MinReorgWeightDeltaP)])

\* [bc, required, actual]
weightDeltaRequired(bc, oldWeight, newWeight) ==
    Let(activeStake(bc), LAMBDA a :
        [bc |-> a.bc,
         required |-> minDelta(a.stake, bc.Config.MinReorgWeightDeltaP),
         actual |-> IF newWeight > oldWeight THEN newWeight - oldWeight ELSE 0])

\* the first index (from 1) at which the chains differ, minLen + 1 if none
RECURSIVE firstDiverge(_, _, _, _)
firstDiverge(oldChain, newChain, i, minLen) ==
    IF i > minLen THEN minLen + 1
    ELSE IF oldChain[i].Hash # newChain[i].Hash THEN i
    ELSE firstDiverge(oldChain, newChain, i + 1, minLen)

divergeSlotAt(oldChain, newChain, diverge) ==
    IF diverge <= Len(oldChain) THEN oldChain[diverge].Slot
    ELSE IF diverge <= Len(newChain) THEN newChain[diverge].Slot
    ELSE 0

\* [depth, slot]
computeReorgDepthAndSlot(oldChain, newChain) ==
    Let(firstDiverge(oldChain, newChain, 1, Min2(Len(oldChain), Len(newChain))),
        LAMBDA diverge :
            [depth |-> (Len(oldChain) + 1) - diverge,
             slot |-> divergeSlotAt(oldChain, newChain, diverge)])

\* the guards without the finalized-touch guard
reorgVerdict_NoFinalizedGuard(bc, r, wdOk) ==
    IF r.depth > bc.Config.MaxReorgDepth THEN "depth"
    ELSE IF ~wdOk THEN "weight"
    ELSE "ok"

\* the guards without the depth guard
reorgVerdict_NoDepthGuard(bc, r, wdOk) ==
    IF bc.FinalizedSlot > 0 /\ r.slot <= bc.FinalizedSlot THEN "finalized"
    ELSE IF ~wdOk THEN "weight"
    ELSE "ok"

\* the guard that rejects the better tip, in the order they are tried, or "ok"
reorgVerdict(bc, r, wdOk) ==
    IF bc.FinalizedSlot > 0 /\ r.slot <= bc.FinalizedSlot THEN "finalized"
    ELSE IF r.depth > bc.Config.MaxReorgDepth THEN "depth"
    ELSE IF ~wdOk THEN "weight"
    ELSE "ok"

\* reorgNoted counting every accepted change of depth > 0 as Info
reorgNoted_InfoOnly(bc, r) ==
    IF r.depth > 0 THEN
        Logged([bc EXCEPT !.ReorgStats.Info = @ + 1],
               LogLine("INFO", "reorg", r.depth, r.slot))
    ELSE bc

\* the counter and the log line of an accepted change of the given depth
reorgNoted(bc, r) ==
    IF r.depth > 1 THEN
        Logged([bc EXCEPT !.ReorgStats.Warn = @ + 1],
               LogLine("WARN", "reorg", r.depth, r.slot))
    ELSE IF r.depth > 0 THEN
        Logged([bc EXCEPT !.ReorgStats.Info = @ + 1],
               LogLine("INFO", "reorg", r.depth, r.slot))
    ELSE bc

\* [bc, ok]: the better tip goes through the guards and, if none rejects it,
\* becomes the canonical tip
guardedSwitch(bc, tipHash, newChain, r, wd, verdict) ==
    IF verdict = "finalized" THEN
        [bc |-> Logged([bc EXCEPT !.ReorgStats.Critical = @ + 1],
                       LogLine("CRITICAL", "finalized", r.depth, r.slot)),
         ok |-> FALSE]
    ELSE IF verdict = "depth" THEN
        [bc |-> Logged([bc EXCEPT !.ReorgStats.Error = @ + 1],
                       LogLine("ERROR", "depth", r.depth, r.slot)),
         ok |-> FALSE]
    ELSE IF verdict = "weight" THEN
        [bc |-> Logged([activeStake(wd.bc).bc EXCEPT !.ReorgStats.Error = @ + 1],
                       LogLine("ERROR", "weight", r.depth, r.slot)),
         ok |-> FALSE]
    ELSE
        [bc |-> updateFinality(rebuildStateFromCanonical(rebuildSlotMap(
                    [reorgNoted(wd.bc, r) EXCEPT !.CanonicalTip = tipHash,
                                                 !.Chain = newChain]))),
         ok |-> TRUE]

\* updateCanonical moving the tip to the parent of the candidate
updateCanonical_ToParent(bc, tipHash) ==
    [bc |-> updateFinality(rebuildCanonicalChain(
                [bc EXCEPT !.CanonicalTip = bc.Blocks[tipHash].PrevHash])),
     ok |-> TRUE]

\* [bc, ok]
updateCanonical(bc, tipHash) ==
    IF bc.CanonicalTip = 0 THEN
        [bc |-> updateFinality(rebuildCanonicalChain([bc EXCEPT !.CanonicalTip = tipHash])),
         ok |-> TRUE]
    ELSE
      Let(scoreTip(bc, bc.CanonicalTip), LAMBDA currentScore :
      Let(scoreTip(currentScore.bc, tipHash), LAMBDA newScore :
        IF ~betterScore(newScore.score, currentScore.score)
        THEN [bc |-> newScore.bc, ok |-> FALSE]
        ELSE
          Let(chainFromTip(newScore.bc, tipHash), LAMBDA nc :
            IF nc.err # "nil" THEN [bc |-> newScore.bc, ok |-> FALSE]
            ELSE
              Let(computeReorgDepthAndSlot(newScore.bc.Chain, nc.chain), LAMBDA r :
              Let(weightDeltaSatisfied(newScore.bc, currentScore.score.CumulativeWeight,
                                       newScore.score.CumulativeWeight), LAMBDA wd :
                guardedSwitch(newScore.bc, tipHash, nc.chain, r, wd,
                              reorgVerdict(newScore.bc, r, wd.ok)))))))

ResetReorgStats(bc) ==
    [bc EXCEPT !.ReorgStats = [Info |-> 0, Warn |-> 0, Error |-> 0, Critical |-> 0]]

(***************************************************************************)
(* Missed slots and equivocation                                           *)
(***************************************************************************)
ensureStats(bc, name) ==
    IF name \in DOMAIN bc.Stats THEN bc
    ELSE [bc EXCEPT !.Stats = MapPut(bc.Stats, name, NewStats)]

\* missedBy leaving the counter as it is when the leader is jailed
missedBy_NoReset(bc, leader, slot) ==
    IF bc.Stats[leader].MissedSlots + 1 > MaxMissedSlots THEN
        [bc EXCEPT !.Validators = SlashValidatorPercent(bc.Validators, leader,
                                                        SlashPercent),
                   !.Stats[leader].MissedSlots = @ + 1,
                   !.Stats[leader].JailedUntilEpoch =
                        (slot \div SlotsPerEpoch) + JailEpochs]
    ELSE [bc EXCEPT !.Stats[leader].MissedSlots = @ + 1]

\* the leader of the slot did not produce it (bc has stats for the leader)
missedBy(bc, leader, slot) ==
    IF bc.Stats[leader].MissedSlots + 1 > MaxMissedSlots THEN
        [bc EXCEPT !.Validators = SlashValidatorPercent(bc.Validators, leader,
                                                        SlashPercent),
                   !.Stats[leader].MissedSlots = 0,
                   !.Stats[leader].JailedUntilEpoch =
                        (slot \div SlotsPerEpoch) + JailEpochs]
    ELSE [bc EXCEPT !.Stats[leader].MissedSlots = @ + 1]

\* one slot of the loop: its leader is charged unless it produced the slot
missedAt(bc, slot) ==
    Let(leaderForSlot(bc, slot), LAMBDA l :
        IF l.leader = "genesis" \/ MapGet(l.bc.SlotProduced, slot, "") = l.leader
        THEN l.bc
        ELSE missedBy(ensureStats(l.bc, l.leader), l.leader, slot))

\* the slots from slot to targetSlot, in order
RECURSIVE missedLoop(_, _, _)
missedLoop(bc, slot, targetSlot) ==
    IF slot > targetSlot THEN bc
    ELSE Let(missedAt(bc, slot), LAMBDA b : missedLoop(b, slot + 1, targetSlot))

processMissedSlots(bc, targetSlot) ==
    IF targetSlot <= bc.LastProcessedSlot THEN bc
    ELSE [missedLoop(bc, bc.LastProcessedSlot + 1, targetSlot)
            EXCEPT !.LastProcessedSlot = targetSlot]

\* the penalties of an equivocation (bc has stats for the validator)
penalized(bc, validator, slot) ==
    [bc EXCEPT !.Stats[validator].Slashed = TRUE,
               !.Validators = SlashValidatorPercent(bc.Validators, validator,
                                                    SlashPercent),
               !.Stats[validator].JailedUntilEpoch =
                    (slot \div SlotsPerEpoch) + JailEpochs]

\* handleEquivocation recording the proof without slashing or jailing
handleEquivocation_ProofOnly(bc, validator, slot, h1, h2) ==
    Logged(ensureStats(
               [bc EXCEPT !.Equivocations =
                    Append(@, [Slot |-> slot, Validator |-> validator,
                               BlockA |-> h1, BlockB |-> h2])],
               validator),
           LogLine("ERROR", "equivocation", 0, slot))

handleEquivocation(bc, validator, slot, h1, h2) ==
    Logged(penalized(ensureStats(
                        [bc EXCEPT !.Equivocations =
                            Append(@, [Slot |-> slot, Validator |-> validator,
                                       BlockA |-> h1, BlockB |-> h2])],
                        validator),
                     validator, slot),
           LogLine("ERROR", "equivocation", 0, slot))

\* the hash recorded for the producer of the block's slot, 0 if none
recordedHash(bc, block) ==
    MapGet(MapGet(bc.SlotProducers, block.Slot, EmptyMap), block.Validator, 0)

\* [bc, err]
registerSlotProducer(bc, block) ==
    IF recordedHash(bc, block) # 0 /\ recordedHash(bc, block) # block.Hash
    THEN [bc |-> handleEquivocation(
                    [bc EXCEPT !.SlotProducers =
                        MapPut(@, block.Slot, MapGet(@, block.Slot, EmptyMap))],
                    block.Validator, block.Slot, recordedHash(bc, block), block.Hash),
          err |-> "equivocation detected"]
    ELSE [bc |-> [bc EXCEPT !.SlotProducers =
                    MapPut(@, block.Slot,
                           MapPut(MapGet(@, block.Slot, EmptyMap),
                                  block.Validator, block.Hash))],
          err |-> "nil"]

(***************************************************************************)
(* Block acceptance                                                        *)
(***************************************************************************)
\* [state, err]
stateAtTip(bc, tipHash) ==
    Let(chainFromTip(bc, tipHash), LAMBDA c :
        IF c.err # "nil" THEN [state |-> EmptyMap, err |-> c.err]
        ELSE Let(replay(bc.Genesis, c.chain), LAMBDA r :
                IF r.err # "nil" THEN [state |-> EmptyMap, err |-> r.err] ELSE r))

\* the checks of verifyBlockOnAccept without the comparison of the state root
acceptErr_AnyStateRoot(bc, block, snap, next) ==
    IF VerifyLeaderSnapshot(block.Slot, block.Validator, snap.Validators) # "nil"
        THEN "wrong leader"
    ELSE IF VerifyTransactions(block.Transactions) # "nil"
        THEN VerifyTransactions(block.Transactions)
    ELSE IF TxRoot(block.Transactions) # block.TxRoot THEN "invalid tx root for block"
    ELSE IF next.err # "nil" THEN next.err
    ELSE IF block.Validator \notin DOMAIN bc.Validators THEN "unknown validator for block"
    ELSE VerifyBlockSignature(block, bc.Validators[block.Validator].PubKey)

\* the checks of verifyBlockOnAccept with the tx root compared before the
\* signatures of the transactions are verified
acceptErr_TxRootFirst(bc, block, snap, next) ==
    IF VerifyLeaderSnapshot(block.Slot, block.Validator, snap.Validators) # "nil"
        THEN "wrong leader"
    ELSE IF TxRoot(block.Transactions) # block.TxRoot THEN "invalid tx root for block"
    ELSE IF VerifyTransactions(block.Transactions) # "nil"
        THEN VerifyTransactions(block.Transactions)
    ELSE IF next.err # "nil" THEN next.err
    ELSE IF StateRoot(next.state) # block.StateRoot THEN "invalid state root for block"
    ELSE IF block.Validator \notin DOMAIN bc.Validators THEN "unknown validator for block"
    ELSE VerifyBlockSignature(block, bc.Validators[block.Validator].PubKey)

\* the checks of verifyBlockOnAccept after the parent link, given the snapshot
\* of the block's slot and the state after the block: "nil" or the first error
acceptErr(bc, block, snap, next) ==
    IF VerifyLeaderSnapshot(block.Slot, block.Validator, snap.Validators) # "nil"
        THEN "wrong leader"
    ELSE IF VerifyTransactions(block.Transactions) # "nil"
        THEN VerifyTransactions(block.Transactions)
    ELSE IF TxRoot(block.Transactions) # block.TxRoot THEN "invalid tx root for block"
    ELSE IF next.err # "nil" THEN next.err
    ELSE IF StateRoot(next.state) # block.StateRoot THEN "invalid state root for block"
    ELSE IF block.Validator \notin DOMAIN bc.Validators THEN "unknown validator for block"
    ELSE VerifyBlockSignature(block, bc.Validators[block.Validator].PubKey)

\* [bc, err]
verifyBlockOnAccept(bc, prev, block, state) ==
    IF block.PrevHash # prev.Hash THEN [bc |-> bc, err |-> "invalid prev hash for block"]
    ELSE Let(snapshotForSlot(bc, block.Slot), LAMBDA s :
            [bc |-> s.bc,
             err |-> acceptErr(s.bc, block, s.snap,
                               ApplyTransactions(state, block.Transactions))])

Slashed(bc, validator) ==
    [bc EXCEPT !.Validators = SlashValidator(bc.Validators, validator, SlashPenalty)]

\* the reward of the producer, then the missed slots up to the tip
rewarded(bc, validator) ==
    Let([bc EXCEPT !.Validators = RewardValidator(bc.Validators, validator)], LAMBDA b :
        processMissedSlots(b, chainTipSlot(b)))

\* A call of AddBlock or AddBlockExternal in progress is a frame q: the engine,
\* the arguments, the locals set so far, what the call returns, and live, which
\* is FALSE once the call has returned.  Each step below takes the frame after
\* the step before it and leaves a frame that has returned as it is.
Frame(bc, prev, txs, nonce) ==
    [bc |-> bc, live |-> TRUE, err |-> "nil", hash |-> 0, prev |-> prev,
     txs |-> txs, nonce |-> nonce, validator |-> "", preState |-> EmptyMap,
     nextState |-> EmptyMap, block |-> <<>>]

\* the call returns err, and the hash it has set
returned(q, bc, err) == [q EXCEPT !.bc = bc, !.err = err, !.live = FALSE]

\* the call returns err and the leader keeps its stake
failed_Unpunished(q, bc, err) == returned(q, bc, err)

\* the call slashes the leader and returns err without a hash
failed(q, bc, err) == returned(q, Slashed(bc, q.validator), err)

\* the entry checks of AddBlock; prev is the canonical tip
addBlockEntry(bc, txs, nonce) ==
    IF DOMAIN bc.Validators = {}
    THEN returned(Frame(bc, <<>>, txs, nonce), bc, "no validators available")
    ELSE Frame(bc, bc.Blocks[bc.CanonicalTip], txs, nonce)

\* the entry checks of AddBlockExternal with the PoH advanced before the
\* parent is looked up
addBlockExternalEntry_TickFirst(bc, prevHash, txs, nonce) ==
    IF DOMAIN bc.Validators = {}
        THEN returned(Frame(bc, <<>>, txs, nonce), bc, "no validators available")
    ELSE IF prevHash \notin DOMAIN bc.Blocks
        THEN returned(Frame(bc, <<>>, txs, nonce),
                      [bc EXCEPT !.poh = Tick(bc.poh, TicksPerSlot)],
                      "unknown parent hash")
    ELSE Frame(bc, bc.Blocks[prevHash], txs, nonce)

\* the entry checks of AddBlockExternal; prev is the parent named by the caller
addBlockExternalEntry(bc, prevHash, txs, nonce) ==
    IF DOMAIN bc.Validators = {}
        THEN returned(Frame(bc, <<>>, txs, nonce), bc, "no validators available")
    ELSE IF prevHash \notin DOMAIN bc.Blocks
        THEN returned(Frame(bc, <<>>, txs, nonce), bc, "unknown parent hash")
    ELSE Frame(bc, bc.Blocks[prevHash], txs, nonce)

\* the call going on in the slot the PoH is in
ticked_Idle(q) == q

\* the PoH advances one slot
ticked(q) ==
    IF ~q.live THEN q ELSE [q EXCEPT !.bc.poh = Tick(q.bc.poh, TicksPerSlot)]

\* [bc, leader]: the snapshot of the current slot is ensured, its leader drawn
slotLeader(bc) == leaderForSlot(ensureSnapshotForSlot(bc, Slot(bc.poh)), Slot(bc.poh))

withLeader(q, l) == [q EXCEPT !.bc = l.bc, !.validator = l.leader]

\* the leader of the slot is the validator of the block
led(q) == IF ~q.live THEN q ELSE withLeader(q, slotLeader(q.bc))

\* the signatures of the transactions
txsVerified(q) ==
    IF ~q.live THEN q
    ELSE IF VerifyTransactions(q.txs) # "nil"
        THEN failed(q, q.bc, VerifyTransactions(q.txs))
    ELSE q

\* AddBlock builds on the canonical state
onState(q) == IF ~q.live THEN q ELSE [q EXCEPT !.preState = q.bc.State]

withParentState(q, parentState) ==
    IF parentState.err # "nil" THEN returned(q, q.bc, parentState.err)
    ELSE [q EXCEPT !.preState = parentState.state]

\* AddBlockExternal building on the canonical state instead
onParentState_Canonical(q) == onState(q)

\* AddBlockExternal builds on the state at the parent
onParentState(q) ==
    IF ~q.live THEN q ELSE withParentState(q, stateAtTip(q.bc, q.prev.Hash))

withNextState(q, next) ==
    IF next.err # "nil" THEN failed(q, q.bc, next.err)
    ELSE [q EXCEPT !.nextState = next.state]

\* the transactions are applied to the pre-state
applied(q) ==
    IF ~q.live THEN q ELSE withNextState(q, ApplyTransactions(q.preState, q.txs))

\* built without the check that the leader has a signing key
built_NoKeyCheck(q) ==
    IF ~q.live THEN q
    ELSE [q EXCEPT !.block =
            SignBlock(IF q.validator \in DOMAIN q.bc.Validators
                      THEN q.bc.Validators[q.validator].PrivKey ELSE 0,
                      [Index |-> q.prev.Index + 1, PrevHash |-> q.prev.Hash,
                       Slot |-> Slot(q.bc.poh), Tick |-> q.bc.poh.CurrentTick,
                       Validator |-> q.validator, TxRoot |-> TxRoot(q.txs),
                       StateRoot |-> StateRoot(q.nextState),
                       PoHHash |-> q.bc.poh.Hash, Signature |-> NoSignature,
                       Hash |-> 0, Transactions |-> q.txs],
                      q.nonce)]

\* the block is assembled and signed with the leader's key
built(q) ==
    IF ~q.live THEN q
    ELSE IF q.validator \notin DOMAIN q.bc.Validators
        THEN failed(q, q.bc, "missing validator signing key")
    ELSE IF q.bc.Validators[q.validator].PrivKey = 0
        THEN failed(q, q.bc, "missing validator signing key")
    ELSE [q EXCEPT !.block =
            SignBlock(q.bc.Validators[q.validator].PrivKey,
                      [Index |-> q.prev.Index + 1, PrevHash |-> q.prev.Hash,
                       Slot |-> Slot(q.bc.poh), Tick |-> q.bc.poh.CurrentTick,
                       Validator |-> q.validator, TxRoot |-> TxRoot(q.txs),
                       StateRoot |-> StateRoot(q.nextState),
                       PoHHash |-> q.bc.poh.Hash, Signature |-> NoSignature,
                       Hash |-> 0, Transactions |-> q.txs],
                      q.nonce)]

withVerdict(q, ver) ==
    IF ver.err # "nil" THEN failed(q, ver.bc, ver.err) ELSE [q EXCEPT !.bc = ver.bc]

\* the block goes through the checks every accepted block goes through
verified(q) ==
    IF ~q.live THEN q
    ELSE withVerdict(q, verifyBlockOnAccept(q.bc, q.prev, q.block, q.preState))

withProducer(q, reg) ==
    [q EXCEPT !.bc = insertBlock(reg.bc, q.block), !.err = reg.err,
              !.hash = q.block.Hash]

\* the producer of the slot is recorded and the block enters the DAG; the
\* call will return the block's hash and the equivocation error, if any
inserted(q) ==
    IF ~q.live THEN q ELSE withProducer(q, registerSlotProducer(q.bc, q.block))

\* fork choice with a tip that did not move reported to the caller
switched_Propagating(q) ==
    IF ~q.live THEN q
    ELSE IF updateCanonical(q.bc, q.block.Hash).ok
        THEN [q EXCEPT !.bc = updateCanonical(q.bc, q.block.Hash).bc]
    ELSE returned(q, updateCanonical(q.bc, q.block.Hash).bc, "canonical tip unchanged")

\* fork choice
switched(q) ==
    IF ~q.live THEN q ELSE [q EXCEPT !.bc = updateCanonical(q.bc, q.block.Hash).bc]

\* the producer is rewarded, the missed slots are processed, the call returns
settled(q) ==
    IF ~q.live THEN q
    ELSE [q EXCEPT !.bc = rewarded(q.bc, q.validator), !.live = FALSE]

\* the frame the call returns with: bc is the engine after the call, err the
\* error returned.  The steps run from the innermost set outward.
AddBlock(bc, txs, nonce) ==
    CHOOSE q \in
        {settled(q9) : q9 \in
        {switched(q8) : q8 \in
        {inserted(q7) : q7 \in
        {verified(q6) : q6 \in
        {built(q5) : q5 \in
        {applied(q4) : q4 \in
        {onState(q3) : q3 \in
        {txsVerified(q2) : q2 \in
        {led(q1) : q1 \in
        {ticked(q0) : q0 \in
        {addBlockEntry(bc, txs, nonce)}}}}}}}}}}} : TRUE

\* the frame the call returns with: bc is the engine after the call, hash and
\* err the results
AddBlockExternal(bc, prevHash, txs, nonce) ==
    CHOOSE q \in
        {settled(q9) : q9 \in
        {switched(q8) : q8 \in
        {inserted(q7) : q7 \in
        {verified(q6) : q6 \in
        {built(q5) : q5 \in
        {applied(q4) : q4 \in
        {onParentState(q3) : q3 \in
        {txsVerified(q2) : q2 \in
        {led(q1) : q1 \in
        {ticked(q0) : q0 \in
        {addBlockExternalEntry(bc, prevHash, txs, nonce)}}}}}}}}}}} : TRUE

\* The steps of AddBlockExternal after the tick, at the slot the ticker is
\* in: the leader of the slot builds one more block on the parent prevHash.
\* registerSlotProducer receives a block of a (slot, validator) it has recorded.
ProduceAgain(bc, prevHash, txs, nonce) ==
    CHOOSE q \in
        {settled(q9) : q9 \in
        {switched(q8) : q8 \in
        {inserted(q7) : q7 \in
        {verified(q6) : q6 \in
        {built(q5) : q5 \in
        {applied(q4) : q4 \in
        {onParentState(q3) : q3 \in
        {txsVerified(q2) : q2 \in
        {led(q1) : q1 \in
        {addBlockExternalEntry(bc, prevHash, txs, nonce)}}}}}}}}}} : TRUE

(***************************************************************************)
(* Full-chain verification                                                 *)
(***************************************************************************)
\* the checks of one block after the hash check, given the snapshot of its slot
\* and the state after it: "nil" or the first error
chainBlockErr(bc, cur, snap, seenSlots, next) ==
    IF VerifyLeaderSnapshot(cur.Slot, cur.Validator, snap.Validators) # "nil"
        THEN "wrong leader"
    ELSE IF MapGet(seenSlots, cur.Slot, "") # "" THEN "double produce at slot"
    ELSE IF VerifyValidator(cur.Validator, bc.Validators) # "nil"
        THEN "unknown validator"
    ELSE IF VerifyBlockSignature(cur, bc.Validators[cur.Validator].PubKey) # "nil"
        THEN VerifyBlockSignature(cur, bc.Validators[cur.Validator].PubKey)
    ELSE IF VerifyTransactions(cur.Transactions) # "nil"
        THEN VerifyTransactions(cur.Transactions)
    ELSE IF TxRoot(cur.Transactions) # cur.TxRoot THEN "invalid tx root"
    ELSE IF next.err # "nil" THEN next.err
    ELSE IF StateRoot(next.state) # cur.StateRoot THEN "invalid state root"
    ELSE "nil"

\* the block at index i is checked: v with the engine, the expected PoH hash
\* and tick, the slots seen and the state after the block, or with the error
verifiedAt(v, cur) ==
    IF VerifyBlockLink(v.prev, cur) # "nil"
        THEN [v EXCEPT !.bc = Slashed(v.bc, cur.Validator),
                       !.err = VerifyBlockLink(v.prev, cur)]
    ELSE
      Let(VerifyPoH(v.hash, v.tick, cur), LAMBDA poh :
        IF poh.err # "nil"
        THEN [v EXCEPT !.bc = Slashed(v.bc, cur.Validator), !.err = poh.err]
        ELSE IF VerifyBlockHash(cur) # "nil"
        THEN [v EXCEPT !.bc = Slashed(v.bc, cur.Validator), !.err = "invalid hash"]
        ELSE
          Let(snapshotForSlot(v.bc, cur.Slot), LAMBDA s :
          Let(ApplyTransactions(v.state, cur.Transactions), LAMBDA next :
          Let(chainBlockErr(s.bc, cur, s.snap, v.seenSlots, next), LAMBDA err :
            IF err # "nil"
            THEN [v EXCEPT !.bc = Slashed(s.bc, cur.Validator), !.err = err]
            ELSE [bc |-> s.bc, err |-> "nil", prev |-> cur, hash |-> poh.hash,
                  tick |-> poh.tick,
                  seenSlots |-> MapPut(v.seenSlots, cur.Slot, cur.Validator),
                  state |-> next.state]))))

\* the blocks of the chain from index i on, until one fails
RECURSIVE verifyChainFrom(_, _, _)
verifyChainFrom(v, chain, i) ==
    IF v.err # "nil" \/ i > Len(chain) THEN v
    ELSE verifyChainFrom(verifiedAt(v, chain[i]), chain, i + 1)

\* [bc, err]
VerifyChain(bc) ==
    IF Len(bc.Chain) = 0 THEN [bc |-> bc, err |-> "empty chain"]
    ELSE IF VerifyBlockHash(bc.Chain[1]) # "nil"
        THEN [bc |-> bc, err |-> "invalid genesis hash"]
    ELSE Let(verifyChainFrom([bc |-> bc, err |-> "nil", prev |-> bc.Chain[1],
                              hash |-> bc.Chain[1].PoHHash, tick |-> bc.Chain[1].Tick,
                              seenSlots |-> EmptyMap, state |-> bc.Genesis],
                             bc.Chain, 2), LAMBDA v :
            [bc |-> v.bc, err |-> v.err])

(***************************************************************************)
(* Construction and the setters                                            *)
(***************************************************************************)
\* the configuration with the defaults of NewBlockchain filled in
withDefaults(cfg) ==
    [cfg EXCEPT !.MaxReorgDepth = IF @ = 0 THEN 2 ELSE @,
                !.FinalitySlots = IF @ = 0 THEN 2 ELSE @,
                !.EpochLength = IF @ = 0 THEN SlotsPerEpoch ELSE @]

\* the engine around its genesis block
engineOf(cfg, genesis) ==
    [Chain |-> <<>>, Blocks |-> EmptyMap, Parents |-> EmptyMap,
     CanonicalTip |-> 0, Validators |-> EmptyMap, Stats |-> EmptyMap,
     poh |-> NewPoH(genesis.PoHHash), State |-> EmptyMap, Genesis |-> EmptyMap,
     SlotProduced |-> EmptyMap, SlotProducers |-> EmptyMap,
     Equivocations |-> <<>>, LastProcessedSlot |-> 0, FinalizedSlot |-> 0,
     Config |-> cfg,
     ReorgStats |-> [Info |-> 0, Warn |-> 0, Error |-> 0, Critical |-> 0],
     Logger |-> <<>>, currentEpoch |-> 0, snapshots |-> EmptyMap]

NewBlockchain(cfg, clock) ==
    Let(createGenesisBlock(RandSeed(withDefaults(cfg), clock)), LAMBDA genesis :
        updateFinality(rebuildCanonicalChain(
            [insertBlock(engineOf(withDefaults(cfg), genesis), genesis)
                EXCEPT !.CanonicalTip = genesis.Hash])))

SetBalance(bc, address, amount) ==
    IF amount < 0 THEN bc
    ELSE IF Len(bc.Chain) <= 1
        THEN [bc EXCEPT !.State = MapPut(@, address, amount),
                        !.Genesis = MapPut(@, address, amount)]
        ELSE [bc EXCEPT !.State = MapPut(@, address, amount)]

(***************************************************************************)
(* The callers' inputs                                                     *)
(***************************************************************************)
\* the defaults of app/config.go with the deterministic seed of the demo
DefaultChainConfig ==
    [MaxReorgDepth |-> 2, FinalitySlots |-> 2, MinReorgWeightDeltaP |-> 10,
     EpochLength |-> 50, DeterministicPoH |-> TRUE, PoHSeed |-> 1]

\* the zero ChainConfig
ZeroChainConfig ==
    [MaxReorgDepth |-> 0, FinalitySlots |-> 0, MinReorgWeightDeltaP |-> 0,
     EpochLength |-> 0, DeterministicPoH |-> FALSE, PoHSeed |-> 0]

\* shallow reorgs only, short epochs
ShallowChainConfig ==
    [MaxReorgDepth |-> 1, FinalitySlots |-> 0, MinReorgWeightDeltaP |-> 0,
     EpochLength |-> 2, DeterministicPoH |-> TRUE, PoHSeed |-> 2]

\* a block is final one slot below the tip
EarlyFinalChainConfig ==
    [MaxReorgDepth |-> 2, FinalitySlots |-> 1, MinReorgWeightDeltaP |-> 10,
     EpochLength |-> 50, DeterministicPoH |-> TRUE, PoHSeed |-> 3]

Configs ==
    {DefaultChainConfig, ZeroChainConfig, ShallowChainConfig, EarlyFinalChainConfig}

\* readings of Clock.UnixNano at construction
Clocks == {7, 8}

\* AddValidator arguments: <<name, stake, pubKey, priv>>
ValidatorArgs ==
    { <<"Alice", 100, 1, 1>>, <<"Bob", 10, 2, 2>>, <<"Charlie", 40, 3, 0>> }

ForkValidatorArgs == { <<"Alice", 100, 1, 1>>, <<"Bob", 10, 2, 2>> }

\* the wallet of key 1 pays 3 to the address of key 2
Transfer ==
    SignTransaction(1, [From |-> 0, To |-> AddressFromPubKey(2), Amount |-> 3,
                        Fee |-> 0, Nonce |-> 0, PubKey |-> 0, Hash |-> 0,
                        Signature |-> NoSignature], 1)

\* the same transfer with its signature overwritten
CorruptTransfer == [Transfer EXCEPT !.Signature = <<0, 0, 0>>]

TxLists == { <<>>, <<Transfer>>, <<CorruptTransfer>> }

NoTxLists == { <<>> }

\* SetBalance arguments: <<address, amount>>
BalanceArgs == { <<AddressFromPubKey(1), 5>>, <<AddressFromPubKey(1), -1>> }

\* a hash no block has
UnknownHash == SlotSpace * HashMod + 1

(***************************************************************************)
(* Mempool                                                                 *)
(***************************************************************************)
\* a call on the pool: its operation and arguments, where it stands (pc),
\* what it returned (err, out), and what happened to its transaction while it
\* ran (held: the pool held the hash when the call was made; rivalAdded:
\* another Add of the same hash returned nil; rivalPopped: a PopForBlock
\* returned the hash)
NoPoolCall ==
    [op |-> "none", pc |-> "idle", tx |-> <<>>, max |-> 0, state |-> EmptyMap,
     producer |-> 0, rule |-> "", err |-> "nil", out |-> <<>>,
     held |-> FALSE, rivalAdded |-> FALSE, rivalPopped |-> FALSE]

\* mu is 0 when the mutex is free, the caller that holds it otherwise
NewMempool ==
    [mu |-> 0, byHash |-> EmptyMap, list |-> <<>>,
     call |-> [t \in {1, 2} |-> NoPoolCall]]

\* the order of the pool: the comparison of sort.Slice in Add
less(a, b) ==
    IF a.Fee # b.Fee THEN a.Fee > b.Fee
    ELSE IF a.From # b.From THEN a.From < b.From
    ELSE a.Nonce < b.Nonce

\* sort.Slice is not stable: every arrangement of the list in which no
\* element is less than one before it
sortSlice(list) ==
    {s \in {[i \in 1..Len(list) |-> list[p[i]]] : p \in Permutations(1..Len(list))} :
        \A i \in 1..Len(s) : \A j \in (i + 1)..Len(s) : ~less(s[j], s[i])}

\* ApplyTransactions of the richer state (accounts with balance and nonce) on
\* the one transaction tx: the sender is debited amount + fee, the receiver
\* credited the amount and the producer the fee.  What it does with the nonce
\* is not said: under the rule "next" the nonce must be the account's and is
\* incremented, under "ignored" it plays no part.
applyForProducer(state, tx, producer, rule) ==
    Let(MapGet(state, tx.From, [Balance |-> 0, Nonce |-> 0]), LAMBDA sender :
        IF tx.Amount <= 0 THEN [state |-> EmptyMap, err |-> "invalid amount"]
        ELSE IF tx.From = 0 THEN [state |-> EmptyMap, err |-> "missing sender"]
        ELSE IF sender.Balance < tx.Amount + tx.Fee
            THEN [state |-> EmptyMap, err |-> "insufficient balance"]
        ELSE IF rule = "next" /\ tx.Nonce # sender.Nonce
            THEN [state |-> EmptyMap, err |-> "invalid nonce"]
        ELSE
          Let(MapPut(state, tx.From,
                     [Balance |-> sender.Balance - (tx.Amount + tx.Fee),
                      Nonce |-> IF rule = "next" THEN sender.Nonce + 1
                                ELSE sender.Nonce]), LAMBDA debited :
          Let(MapPut(debited, tx.To,
                     [MapGet(debited, tx.To, [Balance |-> 0, Nonce |-> 0])
                         EXCEPT !.Balance = @ + tx.Amount]), LAMBDA credited :
            [state |-> MapPut(credited, producer,
                              [MapGet(credited, producer, [Balance |-> 0, Nonce |-> 0])
                                  EXCEPT !.Balance = @ + tx.Fee]),
             err |-> "nil"])))

\* the loop of PopForBlock dropping the transactions that fail to apply
RECURSIVE popLoop_DropFailed(_, _, _, _, _, _)
popLoop_DropFailed(v, list, i, max, producer, rule) ==
    IF i > Len(list) THEN v
    ELSE IF Len(v.out) >= max
        THEN popLoop_DropFailed([v EXCEPT !.remaining = Append(@, list[i])],
                                list, i + 1, max, producer, rule)
    ELSE
      Let(applyForProducer(v.nextState, list[i], producer, rule), LAMBDA next :
        IF next.err # "nil"
        THEN popLoop_DropFailed([v EXCEPT !.byHash = MapDel(@, list[i].Hash)],
                                list, i + 1, max, producer, rule)
        ELSE popLoop_DropFailed([v EXCEPT !.out = Append(@, list[i]),
                                          !.nextState = next.state,
                                          !.byHash = MapDel(@, list[i].Hash)],
                                list, i + 1, max, producer, rule))

\* the loop of PopForBlock from the element i of the list on; v holds out,
\* nextState, remaining and byHash
RECURSIVE popLoop(_, _, _, _, _, _)
popLoop(v, list, i, max, producer, rule) ==
    IF i > Len(list) THEN v
    ELSE IF Len(v.out) >= max
        THEN popLoop([v EXCEPT !.remaining = Append(@, list[i])],
                     list, i + 1, max, producer, rule)
    ELSE
      Let(applyForProducer(v.nextState, list[i], producer, rule), LAMBDA next :
        IF next.err # "nil"
        THEN popLoop([v EXCEPT !.remaining = Append(@, list[i])],
                     list, i + 1, max, producer, rule)
        ELSE popLoop([v EXCEPT !.out = Append(@, list[i]),
                               !.nextState = next.state,
                               !.byHash = MapDel(@, list[i].Hash)],
                     list, i + 1, max, producer, rule))

\* a mutex that never blocks
mutexFree_Always(m) == TRUE

\* the mutex can be taken
mutexFree(m) == m.mu = 0

(***************************************************************************)
(* Storage                                                                 *)
(***************************************************************************)
\* NewFileBlockStore on an empty directory; the empty tip hash is 0
NewBlockStore ==
    [blocks |-> EmptyMap, heightToHash |-> EmptyMap, tipHash |-> 0, tipHeight |-> 0]

\* the block store, and the snapshot store: the validator set saved per epoch
NewStore == [blockStore |-> NewBlockStore, snapshotStore |-> EmptyMap]

SaveBlock(s, block) ==
    [s EXCEPT !.blocks = MapPut(@, block.Hash, block),
              !.heightToHash = MapPut(@, block.Index, block.Hash),
              !.tipHeight = IF block.Index >= s.tipHeight THEN block.Index ELSE @,
              !.tipHash = IF block.Index >= s.tipHeight THEN block.Hash ELSE @]

\* [block, ok]
GetTip(s) ==
    IF s.tipHash = 0 \/ s.tipHash \notin DOMAIN s.blocks
    THEN [block |-> <<>>, ok |-> FALSE]
    ELSE [block |-> s.blocks[s.tipHash], ok |-> TRUE]

\* the least and the greatest number of a set
firstOf(S) == CHOOSE h \in S : \A k \in S : h <= k

lastOf(S) == CHOOSE h \in S : \A k \in S : h >= k

\* the heights of the range the store cannot serve
missingHeights(s, startHeight, endHeight) ==
    {h \in startHeight..endHeight :
        h \notin DOMAIN s.heightToHash \/ s.heightToHash[h] \notin DOMAIN s.blocks}

\* [blocks, err]: the loop stops at the first height it cannot serve
GetRange(s, startHeight, endHeight) ==
    IF endHeight < startHeight THEN [blocks |-> <<>>, err |-> "nil"]
    ELSE IF missingHeights(s, startHeight, endHeight) # {}
    THEN [blocks |-> <<>>,
          err |-> IF firstOf(missingHeights(s, startHeight, endHeight)) \in DOMAIN s.heightToHash
                  THEN "missing block hash" ELSE "missing block at height"]
    ELSE [blocks |-> [i \in 1..((endHeight - startHeight) + 1) |->
                         s.blocks[s.heightToHash[(startHeight + i) - 1]]],
          err |-> "nil"]

SaveEpochSnapshot(ss, epoch, stateRoot, validatorSet) ==
    MapPut(ss, epoch, [Epoch |-> epoch, StateRoot |-> stateRoot,
                       ValidatorSet |-> validatorSet])

\* [epoch, validatorSet, ok]: the file of the highest epoch
LoadLatestSnapshot(ss) ==
    IF DOMAIN ss = {} THEN [epoch |-> 0, validatorSet |-> EmptyMap, ok |-> FALSE]
    ELSE [epoch |-> ss[lastOf(DOMAIN ss)].Epoch,
          validatorSet |-> ss[lastOf(DOMAIN ss)].ValidatorSet, ok |-> TRUE]

RECURSIVE insertBlocks(_, _, _)
insertBlocks(bc, blocks, i) ==
    IF i > Len(blocks) THEN bc
    ELSE insertBlocks(insertBlock(bc, blocks[i]), blocks, i + 1)

\* the index is emptied and filled with the blocks of the range, the tip set,
\* the chain, the slot map and the state rebuilt, the finality updated
restored(bc, blocks, tip) ==
    updateFinality(rebuildCanonicalChain(
        [insertBlocks([bc EXCEPT !.Blocks = EmptyMap, !.Parents = EmptyMap], blocks, 1)
            EXCEPT !.CanonicalTip = tip.Hash]))

\* [bc, store, err]: the variant that reads the latest snapshot and drops it
RestoreFromStorage(bc, st) ==
    Let(GetTip(st.blockStore), LAMBDA tip :
        IF ~tip.ok THEN [bc |-> bc, store |-> st, err |-> "nil"]
        ELSE Let(GetRange(st.blockStore, 0, tip.block.Index), LAMBDA range :
                IF range.err # "nil" THEN [bc |-> bc, store |-> st, err |-> range.err]
                ELSE [bc |-> restored(bc, range.blocks, tip.block), store |-> st,
                      err |-> "nil"]))

\* the latest snapshot of the store is entered for its epoch
withLatestSnapshot(bc, l) ==
    IF ~l.ok THEN bc
    ELSE [bc EXCEPT !.snapshots =
                        MapPut(@, l.epoch,
                               [Epoch |-> l.epoch,
                                TotalStake |-> SumStakes(l.validatorSet,
                                                         DOMAIN l.validatorSet),
                                Validators |-> l.validatorSet]),
                    !.currentEpoch = l.epoch]

\* [bc, store, err]: the variant that persists genesis in a fresh store and
\* loads the latest snapshot
RestoreFromStorageSnapshot(bc, st) ==
    Let(GetTip(st.blockStore), LAMBDA tip :
        IF ~tip.ok
        THEN [bc |-> bc,
              store |-> IF Len(bc.Chain) > 0
                        THEN [st EXCEPT !.blockStore = SaveBlock(@, bc.Chain[1])]
                        ELSE st,
              err |-> "nil"]
        ELSE Let(withLatestSnapshot(bc, LoadLatestSnapshot(st.snapshotStore)), LAMBDA b :
             Let(GetRange(st.blockStore, 0, tip.block.Index), LAMBDA range :
                IF range.err # "nil" THEN [bc |-> b, store |-> st, err |-> range.err]
                ELSE [bc |-> restored(b, range.blocks, tip.block), store |-> st,
                      err |-> "nil"])))

(***************************************************************************)
(* State                                                                   *)
(***************************************************************************)
VARIABLES
    bc,         \* the engine (*Blockchain)
    ret,        \* the last call that returns an error value, and its results
    replica,    \* a second engine given the same calls (two-engine runs)
    retReplica, \* what the replica returned
    calls,      \* how many calls of each bounded kind were made
    mempool,    \* the pool (*Mempool) and the calls in progress on it
    store       \* the block store and the snapshot store of the node

vars == <<bc, ret, replica, retReplica, calls, mempool, store>>

NoCalls ==
    [AddValidator |-> 0, SetBalance |-> 0, VerifyChain |-> 0, Tx |-> 0,
     ProduceAgain |-> 0, Mempool |-> 0, ResetReorgStats |-> 0,
     GetForkCandidates |-> 0, SaveBlock |-> 0, SaveEpochSnapshot |-> 0,
     RestoreFromStorage |-> 0, NewNode |-> 0]

Ret(op, err, hash) == [op |-> op, err |-> err, hash |-> hash]

\* a call starts with an empty log
Entered(b) == [b EXCEPT !.Logger = <<>>]

Counted(kind) == [calls EXCEPT ![kind] = @ + 1]

CountedTx(txs) == IF txs = <<>> THEN calls ELSE Counted("Tx")

TxAllowed(txs) == txs = <<>> \/ calls.Tx < MaxTxCalls

Init ==
    /\ \E cfg \in Configs : bc = NewBlockchain(cfg, 7)
    /\ ret = Ret("NewBlockchain", "nil", 0)
    /\ replica = bc
    /\ retReplica = ret
    /\ calls = NoCalls
    /\ mempool = NewMempool
    /\ store = NewStore

(***************************************************************************)
(* The calls on one engine                                                 *)
(***************************************************************************)
AddValidatorCall(args) ==
    /\ calls.AddValidator < MaxAddValidator
    /\ \E a \in args :
          \E r \in {AddValidator(bc.Validators, bc.Stats, a[1], a[2], a[3], a[4])} :
             /\ bc' = [Entered(bc) EXCEPT !.Validators = r.validators,
                                          !.Stats = r.stats]
             /\ ret' = Ret("AddValidator", r.err, 0)
             /\ calls' = IF r.err = "nil" THEN Counted("AddValidator") ELSE calls
    /\ UNCHANGED <<replica, retReplica, mempool, store>>

SetBalanceCall ==
    /\ calls.SetBalance < MaxSetBalance
    /\ \E a \in BalanceArgs :
          /\ bc' = SetBalance(Entered(bc), a[1], a[2])
          /\ calls' = IF a[2] < 0 THEN calls ELSE Counted("SetBalance")
    /\ UNCHANGED <<ret, replica, retReplica, mempool, store>>

AddBlockCall(txLists, maxSlot) ==
    /\ Slot(bc.poh) < maxSlot
    /\ \E txs \in txLists :
          /\ TxAllowed(txs)
          /\ \E r \in {AddBlock(Entered(bc), txs, 1)} :
                /\ bc' = r.bc
                /\ ret' = Ret("AddBlock", r.err, 0)
          /\ calls' = CountedTx(txs)
    /\ UNCHANGED <<replica, retReplica, mempool, store>>

AddBlockExternalCall(txLists, maxSlot) ==
    /\ Slot(bc.poh) < maxSlot
    /\ \E prevHash \in DOMAIN bc.Blocks \cup {UnknownHash}, txs \in txLists :
          /\ TxAllowed(txs)
          /\ \E r \in {AddBlockExternal(Entered(bc), prevHash, txs, 1)} :
                /\ bc' = r.bc
                /\ ret' = Ret("AddBlockExternal", r.err, r.hash)
          /\ calls' = CountedTx(txs)
    /\ UNCHANGED <<replica, retReplica, mempool, store>>

VerifyChainCall ==
    /\ calls.VerifyChain < MaxVerifyChain
    /\ \E r \in {VerifyChain(Entered(bc))} :
          /\ bc' = r.bc
          /\ ret' = Ret("VerifyChain", r.err, 0)
          /\ calls' = IF r.err = "nil" THEN calls ELSE Counted("VerifyChain")
    /\ UNCHANGED <<replica, retReplica, mempool, store>>

\* GetEpochSnapshot(slot): the query freezes the epoch of the slot when absent
GetEpochSnapshotCall ==
    /\ \E slot \in {0, MaxSlot} :
          bc' = snapshotForSlot(Entered(bc), slot).bc
    /\ UNCHANGED <<ret, replica, retReplica, calls, mempool, store>>

(***************************************************************************)
(* Runs over the whole interface                                           *)
(***************************************************************************)
Next ==
    \/ AddValidatorCall(ValidatorArgs)
    \/ SetBalanceCall
    \/ AddBlockCall(TxLists, MaxSlot)
    \/ AddBlockExternalCall(TxLists, MaxSlot)
    \/ VerifyChainCall
    \/ GetEpochSnapshotCall

Spec == Init /\ [][Next]_vars

(***************************************************************************)
(* Fork-choice runs: validators and empty blocks on any parent             *)
(***************************************************************************)
NextFork ==
    \/ AddValidatorCall(ForkValidatorArgs)
    \/ AddBlockCall(NoTxLists, MaxForkSlot)
    \/ AddBlockExternalCall(NoTxLists, MaxForkSlot)

SpecFork == Init /\ [][NextFork]_vars

(***************************************************************************)
(* Finality runs: the fork-choice runs with SetBalance and VerifyChain     *)
(***************************************************************************)
NextFinal ==
    \/ AddValidatorCall(ForkValidatorArgs)
    \/ SetBalanceCall
    \/ AddBlockCall(NoTxLists, MaxForkSlot)
    \/ AddBlockExternalCall(NoTxLists, MaxForkSlot)
    \/ VerifyChainCall

SpecFinal == Init /\ [][NextFinal]_vars

(***************************************************************************)
(* Reorg-counter runs: the fork-choice runs with ResetReorgStats           *)
(***************************************************************************)
ResetReorgStatsCall ==
    /\ calls.ResetReorgStats < MaxResetReorgStats
    /\ bc' = ResetReorgStats(Entered(bc))
    /\ ret' = Ret("ResetReorgStats", "nil", 0)
    /\ calls' = Counted("ResetReorgStats")
    /\ UNCHANGED <<replica, retReplica, mempool, store>>

NextReorg ==
    \/ AddValidatorCall(ForkValidatorArgs)
    \/ AddBlockCall(NoTxLists, MaxForkSlot)
    \/ AddBlockExternalCall(NoTxLists, MaxForkSlot)
    \/ ResetReorgStatsCall

SpecReorg == Init /\ [][NextReorg]_vars

(***************************************************************************)
(* Fork-candidate runs: the fork-choice runs with GetForkCandidates        *)
(***************************************************************************)
\* the orders in which the keys of a map may be ranged over
RangeOrders(keys) ==
    {o \in [1..Cardinality(keys) -> keys] :
        \A i, j \in DOMAIN o : i # j => o[i] # o[j]}

GetForkCandidatesCall ==
    /\ calls.GetForkCandidates < MaxGetForkCandidates
    /\ \E order \in RangeOrders(DOMAIN bc.Blocks) :
          \E r \in {GetForkCandidates(Entered(bc), order)} :
             \E sorted \in sortCandidates(r.candidates) :
                /\ bc' = r.bc
                /\ ret' = [op |-> "GetForkCandidates", err |-> "nil", hash |-> 0,
                           candidates |-> sorted]
    /\ calls' = Counted("GetForkCandidates")
    /\ UNCHANGED <<replica, retReplica, mempool, store>>

NextCandidates ==
    \/ AddValidatorCall(ForkValidatorArgs)
    \/ AddBlockCall(NoTxLists, MaxForkSlot)
    \/ AddBlockExternalCall(NoTxLists, MaxForkSlot)
    \/ GetForkCandidatesCall

SpecCandidates == Init /\ [][NextCandidates]_vars

(***************************************************************************)
(* Snapshot runs: the queries that freeze an epoch, a validator named as   *)
(* the leader of an empty snapshot, and AddBlock                           *)
(***************************************************************************)
SnapshotValidatorArgs == { <<"Alice", 100, 1, 1>>, <<"genesis", 40, 2, 2>> }

ScoreTipCall ==
    /\ \E tipHash \in DOMAIN bc.Blocks \cup {UnknownHash} :
          /\ bc' = scoreTip(Entered(bc), tipHash).bc
          /\ ret' = Ret("ScoreTip", "nil", tipHash)
    /\ UNCHANGED <<replica, retReplica, calls, mempool, store>>

WeightDeltaRequiredCall ==
    /\ bc' = weightDeltaRequired(Entered(bc), 0, 1).bc
    /\ ret' = Ret("WeightDeltaRequired", "nil", 0)
    /\ UNCHANGED <<replica, retReplica, calls, mempool, store>>

NextSnapshot ==
    \/ AddValidatorCall(SnapshotValidatorArgs)
    \/ AddBlockCall(NoTxLists, MaxSnapshotSlot)
    \/ ScoreTipCall
    \/ GetEpochSnapshotCall
    \/ GetForkCandidatesCall
    \/ WeightDeltaRequiredCall

SpecSnapshot == Init /\ [][NextSnapshot]_vars

(***************************************************************************)
(* Runs with a store and restarts                                          *)
(***************************************************************************)
\* the validators of the restore runs
RestoreValidatorArgs == { <<"Alice", 100, 1, 1>>, <<"Bob", 40, 2, 2>> }

\* the node persists a block of its index
SaveBlockCall ==
    /\ calls.SaveBlock < MaxSaveBlock
    /\ \E h \in DOMAIN bc.Blocks :
          store' = [store EXCEPT !.blockStore = SaveBlock(@, bc.Blocks[h])]
    /\ calls' = Counted("SaveBlock")
    /\ UNCHANGED <<bc, ret, replica, retReplica, mempool>>

\* the node persists an epoch snapshot it has frozen
SaveEpochSnapshotCall ==
    /\ calls.SaveEpochSnapshot < MaxSaveEpochSnapshot
    /\ \E e \in DOMAIN bc.snapshots :
          store' = [store EXCEPT !.snapshotStore =
                       SaveEpochSnapshot(@, e, StateRoot(bc.State),
                                         bc.snapshots[e].Validators)]
    /\ calls' = Counted("SaveEpochSnapshot")
    /\ UNCHANGED <<bc, ret, replica, retReplica, mempool>>

\* RestoreFromStorage on the running engine, in either variant
RestoreFromStorageCall ==
    /\ calls.RestoreFromStorage < MaxRestoreFromStorage
    /\ \E r \in {RestoreFromStorage(Entered(bc), store),
                 RestoreFromStorageSnapshot(Entered(bc), store)} :
          /\ bc' = r.bc
          /\ store' = r.store
          /\ ret' = Ret("RestoreFromStorage", r.err, 0)
    /\ calls' = Counted("RestoreFromStorage")
    /\ UNCHANGED <<replica, retReplica, mempool>>

\* NewNode with a data directory: a new engine of the same configuration is
\* restored from the store; when the restore fails there is no new node and
\* the engine is the one there was
NewNodeCall ==
    /\ calls.NewNode < MaxNewNode
    /\ \E clock \in Clocks :
       \E r \in {RestoreFromStorage(NewBlockchain(bc.Config, clock), store),
                 RestoreFromStorageSnapshot(NewBlockchain(bc.Config, clock), store)} :
          /\ bc' = IF r.err = "nil" THEN r.bc ELSE bc
          /\ store' = r.store
          /\ ret' = Ret("NewNode", r.err, 0)
    /\ calls' = [Counted("NewNode") EXCEPT !.AddValidator = 0]
    /\ UNCHANGED <<replica, retReplica, mempool>>

NextRestore ==
    \/ AddValidatorCall(RestoreValidatorArgs)
    \/ AddBlockCall(NoTxLists, MaxRestoreSlot)
    \/ SaveBlockCall
    \/ SaveEpochSnapshotCall
    \/ RestoreFromStorageCall
    \/ NewNodeCall

SpecRestore == Init /\ [][NextRestore]_vars

(***************************************************************************)
(* A second block in the slot the ticker is in                             *)
(***************************************************************************)
\* the leader of a slot that has a producer recorded produces in it again
EqProduceAgain ==
    /\ calls.ProduceAgain < MaxProduceAgain
    /\ Slot(bc.poh) \in DOMAIN bc.SlotProducers
    /\ \E prevHash \in DOMAIN bc.Blocks :
          \E r \in {ProduceAgain(Entered(bc), prevHash, <<>>, 1)} :
             /\ bc' = r.bc
             /\ ret' = Ret("ProduceAgain", r.err, r.hash)
    /\ calls' = Counted("ProduceAgain")
    /\ UNCHANGED <<replica, retReplica, mempool, store>>

NextEq ==
    \/ AddValidatorCall(ForkValidatorArgs)
    \/ AddBlockCall(NoTxLists, MaxEqSlot)
    \/ AddBlockExternalCall(NoTxLists, MaxEqSlot)
    \/ EqProduceAgain

SpecEq == Init /\ [][NextEq]_vars

(***************************************************************************)
(* Missed-slot runs: forks, then one more slot on the canonical chain, long *)
(* enough for a leader to be jailed and for epochs to pass                 *)
(***************************************************************************)
(***************************************************************************)
(* The calls on the mempool, by two callers at once                        *)
(***************************************************************************)
\* a transfer of the wallet of key priv, signed with the signing nonce k
PoolTransfer(priv, to, amount, fee, k) ==
    SignTransaction(priv, [From |-> 0, To |-> to, Amount |-> amount, Fee |-> fee,
                           Nonce |-> 0, PubKey |-> 0, Hash |-> 0,
                           Signature |-> NoSignature], k)

\* a transfer, the same transfer signed again, one that ties with it in the
\* order of the pool, one of a higher fee, one without its hash and one with
\* its signature overwritten
PoolTxs ==
    { PoolTransfer(1, AddressFromPubKey(2), 3, 1, 1),
      PoolTransfer(1, AddressFromPubKey(2), 3, 1, 2),
      PoolTransfer(1, AddressFromPubKey(3), 3, 1, 1),
      PoolTransfer(2, AddressFromPubKey(1), 2, 2, 1),
      [PoolTransfer(1, AddressFromPubKey(2), 3, 1, 1) EXCEPT !.Hash = 0],
      [PoolTransfer(1, AddressFromPubKey(2), 3, 1, 1) EXCEPT !.Signature = <<0, 0, 0>>] }

\* the pre-states of PopForBlock: no account, and two funded accounts
PoolStates ==
    { EmptyMap,
      [a \in {AddressFromPubKey(1), AddressFromPubKey(2)} |->
          [Balance |-> IF a = AddressFromPubKey(1) THEN 8 ELSE 2, Nonce |-> 0]] }

\* Add(tx) up to the mutex: the checks that need no lock
addEntered(tx) ==
    IF tx.Hash = 0
        THEN [NoPoolCall EXCEPT !.op = "Add", !.tx = tx, !.err = "missing tx hash"]
    ELSE IF VerifyTransactionSignature(tx) # "nil"
        THEN [NoPoolCall EXCEPT !.op = "Add", !.tx = tx,
                                !.err = VerifyTransactionSignature(tx)]
    ELSE [NoPoolCall EXCEPT !.op = "Add", !.tx = tx, !.pc = "lock"]

\* PopForBlock(state, max, producer) up to the mutex
popEntered(state, max, producer, rule) ==
    [NoPoolCall EXCEPT !.op = "PopForBlock", !.state = state, !.max = max,
                       !.producer = producer, !.rule = rule,
                       !.pc = IF max <= 0 THEN "idle" ELSE "lock"]

\* the caller t is in Add: it enters, looks the hash up, inserts and sorts
MempoolAdd(t) ==
    \/ /\ mempool.call[t].pc = "idle"
       /\ calls.Mempool < MaxPoolCalls
       /\ \E tx \in PoolTxs :
             mempool' = [mempool EXCEPT
                            !.call[t] = [addEntered(tx) EXCEPT
                                            !.held = tx.Hash \in DOMAIN mempool.byHash]]
       /\ calls' = Counted("Mempool")
       /\ UNCHANGED <<bc, ret, replica, retReplica, store>>
    \/ /\ mempool.call[t].op = "Add"
       /\ mempool.call[t].pc = "locked"
       /\ mempool' =
             IF mempool.call[t].tx.Hash \in DOMAIN mempool.byHash
             THEN [mempool EXCEPT !.call[t].err = "duplicate tx",
                                  !.call[t].pc = "unlock"]
             ELSE [mempool EXCEPT !.call[t].pc = "insert"]
       /\ UNCHANGED <<bc, ret, replica, retReplica, calls, store>>
    \/ /\ mempool.call[t].pc = "insert"
       /\ \E s \in sortSlice(Append(mempool.list, mempool.call[t].tx)) :
             mempool' = [mempool EXCEPT
                            !.byHash = MapPut(@, mempool.call[t].tx.Hash,
                                              mempool.call[t].tx),
                            !.list = s,
                            !.call[t].pc = "unlock"]
       /\ UNCHANGED <<bc, ret, replica, retReplica, calls, store>>

\* the caller t is in PopForBlock: it enters, and runs the loop
MempoolPop(t) ==
    \/ /\ mempool.call[t].pc = "idle"
       /\ calls.Mempool < MaxPoolCalls
       /\ \E state \in PoolStates, max \in {0, 1, 2}, rule \in {"ignored", "next"} :
             mempool' = [mempool EXCEPT
                            !.call[t] = popEntered(state, max, AddressFromPubKey(3), rule)]
       /\ calls' = Counted("Mempool")
       /\ UNCHANGED <<bc, ret, replica, retReplica, store>>
    \/ /\ mempool.call[t].op = "PopForBlock"
       /\ mempool.call[t].pc = "locked"
       /\ mempool' =
             IF Len(mempool.list) = 0
             THEN [mempool EXCEPT !.call[t].pc = "unlock"]
             ELSE Let(popLoop([out |-> <<>>, nextState |-> mempool.call[t].state,
                               remaining |-> <<>>, byHash |-> mempool.byHash],
                              mempool.list, 1, mempool.call[t].max,
                              mempool.call[t].producer, mempool.call[t].rule),
                      LAMBDA v :
                        [mempool EXCEPT !.byHash = v.byHash,
                                        !.list = v.remaining,
                                        !.call[t].out = v.out,
                                        !.call[t].pc = "unlock"])
       /\ UNCHANGED <<bc, ret, replica, retReplica, calls, store>>

\* m.mu.Lock()
PoolLock(t) ==
    /\ mempool.call[t].pc = "lock"
    /\ mutexFree(mempool)
    /\ mempool' = [mempool EXCEPT !.mu = t, !.call[t].pc = "locked"]
    /\ UNCHANGED <<bc, ret, replica, retReplica, calls, store>>

\* the call of t, which returns, seen from the call c of another caller: an
\* Add of the same hash has returned nil, or a PopForBlock has returned the
\* hash, while c was running
seenBy(c, returning) ==
    IF c.op # "Add" \/ c.pc = "idle" THEN c
    ELSE [c EXCEPT
            !.rivalAdded = @ \/ (/\ returning.op = "Add"
                                 /\ returning.err = "nil"
                                 /\ returning.tx.Hash = c.tx.Hash),
            !.rivalPopped = @ \/ (/\ returning.op = "PopForBlock"
                                  /\ \E i \in 1..Len(returning.out) :
                                        returning.out[i].Hash = c.tx.Hash)]

\* the deferred m.mu.Unlock(), and the return
PoolUnlock(t) ==
    /\ mempool.call[t].pc = "unlock"
    /\ mempool' = [mempool EXCEPT
                      !.mu = 0,
                      !.call = [u \in DOMAIN mempool.call |->
                                  IF u = t THEN [mempool.call[t] EXCEPT !.pc = "idle"]
                                  ELSE seenBy(mempool.call[u], mempool.call[t])]]
    /\ UNCHANGED <<bc, ret, replica, retReplica, calls, store>>

\* the callers 1 and 2
NextPool ==
    \/ MempoolAdd(1)
    \/ MempoolAdd(2)
    \/ MempoolPop(1)
    \/ MempoolPop(2)
    \/ PoolLock(1)
    \/ PoolLock(2)
    \/ PoolUnlock(1)
    \/ PoolUnlock(2)

SpecPool == Init /\ [][NextPool]_vars

(***************************************************************************)
(* The calls on the validator registry                                     *)
(***************************************************************************)
\* [validators, stats, err] of the registry function op; RewardValidator,
\* SlashValidator and SlashValidatorPercent return no error
registryOp(op, validators, stats, name, amount, key) ==
    CASE op = "AddValidator" ->
            AddValidator(validators, stats, name, amount, key, key)
      [] op = "AddStake" ->
            [validators |-> AddStake(validators, name, amount).validators,
             stats |-> stats, err |-> AddStake(validators, name, amount).err]
      [] op = "Unstake" ->
            [validators |-> Unstake(validators, name, amount).validators,
             stats |-> stats, err |-> Unstake(validators, name, amount).err]
      [] op = "RewardValidator" ->
            [validators |-> RewardValidator(validators, name),
             stats |-> stats, err |-> "nil"]
      [] op = "SlashValidator" ->
            [validators |-> SlashValidator(validators, name, amount),
             stats |-> stats, err |-> "nil"]
      [] op = "SlashValidatorPercent" ->
            [validators |-> SlashValidatorPercent(validators, name, amount),
             stats |-> stats, err |-> "nil"]

\* one call of a registry function, on a name that may be empty or unknown,
\* with an amount (a percentage for SlashValidatorPercent) and a public key
RegistryCall(op) ==
    /\ \E name \in {"", "Alice", "Bob"} : \E amount \in {0, 1, 4, 10, 12} :
       \E key \in {0, 1} :
       \E r \in {registryOp(op, bc.Validators, bc.Stats, name, amount, key)} :
          /\ \A n \in DOMAIN r.validators :
                r.validators[n].Stake <= MaxRegistryStake
          /\ bc' = [Entered(bc) EXCEPT !.Validators = r.validators,
                                       !.Stats = r.stats]
          /\ ret' = Ret(op, r.err, 0)
    /\ UNCHANGED <<replica, retReplica, calls, mempool, store>>

NextRegistry ==
    \/ RegistryCall("AddValidator")
    \/ RegistryCall("AddStake")
    \/ RegistryCall("Unstake")
    \/ RegistryCall("RewardValidator")
    \/ RegistryCall("SlashValidator")
    \/ RegistryCall("SlashValidatorPercent")

SpecRegistry == Init /\ [][NextRegistry]_vars

NextJail ==
    \/ AddValidatorCall(ValidatorArgs)
    \/ AddBlockCall(NoTxLists, MaxJailSlot)
    \/ AddBlockExternalCall(NoTxLists, MaxJailForkSlot)

SpecJail == Init /\ [][NextJail]_vars

(***************************************************************************)
(* Two engines given the same calls                                        *)
(***************************************************************************)
\* the configurations of the two-engine runs: seeded, and seeded by the clock
DetConfigs == {DefaultChainConfig, ZeroChainConfig}

\* both engines are built with the same configuration; each reads its clock
InitDet ==
    /\ \E cfg \in DetConfigs, clock \in Clocks :
          /\ bc = NewBlockchain(cfg, 7)
          /\ replica = NewBlockchain(cfg, clock)
    /\ ret = Ret("NewBlockchain", "nil", 0)
    /\ retReplica = ret
    /\ calls = NoCalls
    /\ mempool = NewMempool
    /\ store = NewStore

DetAddValidator ==
    /\ calls.AddValidator < MaxAddValidator
    /\ \E a \in ForkValidatorArgs :
          \E r \in {AddValidator(bc.Validators, bc.Stats, a[1], a[2], a[3], a[4])},
             s \in {AddValidator(replica.Validators, replica.Stats,
                                 a[1], a[2], a[3], a[4])} :
             /\ bc' = [Entered(bc) EXCEPT !.Validators = r.validators,
                                          !.Stats = r.stats]
             /\ replica' = [Entered(replica) EXCEPT !.Validators = s.validators,
                                                    !.Stats = s.stats]
             /\ ret' = Ret("AddValidator", r.err, 0)
             /\ retReplica' = Ret("AddValidator", s.err, 0)
             /\ calls' = IF r.err = "nil" THEN Counted("AddValidator") ELSE calls
    /\ UNCHANGED <<mempool, store>>

DetSetBalance ==
    /\ calls.SetBalance < MaxSetBalance
    /\ \E a \in BalanceArgs :
          /\ bc' = SetBalance(Entered(bc), a[1], a[2])
          /\ replica' = SetBalance(Entered(replica), a[1], a[2])
          /\ calls' = IF a[2] < 0 THEN calls ELSE Counted("SetBalance")
    /\ UNCHANGED <<ret, retReplica, mempool, store>>

\* the signing nonces of the two engines are drawn independently
DetAddBlock ==
    /\ Slot(bc.poh) < MaxDetSlot
    /\ \E txs \in TxLists, nonce \in 1..MaxNonce :
          /\ TxAllowed(txs)
          /\ \E r \in {AddBlock(Entered(bc), txs, 1)},
                s \in {AddBlock(Entered(replica), txs, nonce)} :
                /\ bc' = r.bc
                /\ replica' = s.bc
                /\ ret' = Ret("AddBlock", r.err, 0)
                /\ retReplica' = Ret("AddBlock", s.err, 0)
          /\ calls' = CountedTx(txs)
    /\ UNCHANGED <<mempool, store>>

DetAddBlockExternal ==
    /\ Slot(bc.poh) < MaxDetSlot
    /\ \E prevHash \in DOMAIN bc.Blocks, nonce \in 1..MaxNonce :
          \E r \in {AddBlockExternal(Entered(bc), prevHash, <<>>, 1)},
             s \in {AddBlockExternal(Entered(replica), prevHash, <<>>, nonce)} :
             /\ bc' = r.bc
             /\ replica' = s.bc
             /\ ret' = Ret("AddBlockExternal", r.err, r.hash)
             /\ retReplica' = Ret("AddBlockExternal", s.err, s.hash)
    /\ UNCHANGED <<calls, mempool, store>>

NextDet ==
    \/ DetAddValidator
    \/ DetSetBalance
    \/ DetAddBlock
    \/ DetAddBlockExternal

SpecDet == InitDet /\ [][NextDet]_vars

(***************************************************************************)
(* Terms of the properties                                                 *)
(***************************************************************************)
\* the hashes of the blocks of a chain
HashesOf(chain) == {chain[i].Hash : i \in 1..Len(chain)}

\* the positions of the old chain whose block is not on the new chain
DroppedFrom(oldChain, newChain) ==
    {i \in 1..Len(oldChain) : oldChain[i].Hash \notin HashesOf(newChain)}

\* the stake the engine b has frozen for the producer of the block
FrozenStake(b, block) ==
    MapGet(b.snapshots[epochForSlot(b, block.Slot)].Validators, block.Validator, 0)

\* the cumulative weight of chain[1..i] under the snapshots of the engine b
RECURSIVE WeightUpTo(_, _, _)
WeightUpTo(b, chain, i) ==
    IF i = 0 THEN 0 ELSE WeightUpTo(b, chain, i - 1) + FrozenStake(b, chain[i])

ChainWeight(b, chain) == WeightUpTo(b, chain, Len(chain))

\* the step moves the canonical tip
TipChanges == bc'.CanonicalTip # bc.CanonicalTip

\* the step is a call of AddBlock, of AddBlockExternal
AddBlockStep == bc'.poh # bc.poh /\ ret'.op = "AddBlock"

AddBlockExternalStep == bc'.poh # bc.poh /\ ret'.op = "AddBlockExternal"

\* the weight the new chain has gained over the old one
WeightGain == ChainWeight(bc', bc'.Chain) - ChainWeight(bc', bc.Chain)

\* the active stake of the guard: the frozen total at the old tip's slot
ActiveStakeBefore == bc'.snapshots[epochForSlot(bc, chainTipSlot(bc))].TotalStake

\* max(1, active_stake * MinReorgWeightDeltaP / 100)
RequiredGain ==
    IF (ActiveStakeBefore * bc.Config.MinReorgWeightDeltaP) \div 100 < 1 THEN 1
    ELSE (ActiveStakeBefore * bc.Config.MinReorgWeightDeltaP) \div 100

(***************************************************************************)
(* C1                                                                      *)
(***************************************************************************)
\* C1: FinalizedSlot never decreases: no call of AddValidator, SetBalance,
\* AddBlock, AddBlockExternal (successful or failing) or VerifyChain leaves
\* FinalizedSlot below its value before the call.
C1_FinalityMonotone == [][bc'.FinalizedSlot >= bc.FinalizedSlot]_vars

\* a block has become final and a later call has returned an error
C1_Witness == bc.FinalizedSlot > 0 /\ ret.err # "nil"

(***************************************************************************)
(* C2                                                                      *)
(***************************************************************************)
\* C2: finality safety: every step that moves the canonical tip has a diverge
\* slot above FinalizedSlot as it was before the step, and drops no block of
\* the canonical chain whose slot is at most that FinalizedSlot.
C2_FinalitySafety ==
    [][TipChanges =>
        /\ computeReorgDepthAndSlot(bc.Chain, bc'.Chain).slot > bc.FinalizedSlot
        /\ \A i \in DroppedFrom(bc.Chain, bc'.Chain) :
              bc.Chain[i].Slot > bc.FinalizedSlot]_vars

\* a better fork that leaves the chain at a final slot has been turned away
C2_Witness == bc.FinalizedSlot > 0 /\ bc.ReorgStats.Critical > 0

(***************************************************************************)
(* C3                                                                      *)
(***************************************************************************)
\* C3: reorg bound: every step that moves the canonical tip drops at most
\* MaxReorgDepth blocks of the previous canonical chain, and the number dropped
\* is the reorg depth: the length of the old chain minus the first index (from
\* 0) at which the chains differ, 0 for a pure extension.
C3_ReorgBound ==
    [][TipChanges =>
        /\ Cardinality(DroppedFrom(bc.Chain, bc'.Chain)) <= bc.Config.MaxReorgDepth
        /\ Cardinality(DroppedFrom(bc.Chain, bc'.Chain))
              = computeReorgDepthAndSlot(bc.Chain, bc'.Chain).depth]_vars

\* the depth guard has turned a better fork away
C3_Witness ==
    \E i \in DOMAIN bc.Logger :
        bc.Logger[i].what = "depth" /\ bc.Logger[i].depth > bc.Config.MaxReorgDepth

(***************************************************************************)
(* C4                                                                      *)
(***************************************************************************)
\* C4 as stated: for every MinReorgWeightDeltaP >= 0, every step that moves the
\* canonical tip and drops at least one block of the old chain gains at least
\* max(1, active_stake * MinReorgWeightDeltaP / 100) in cumulative weight.
C4_Original ==
    [][TipChanges /\ DroppedFrom(bc.Chain, bc'.Chain) # {} =>
        WeightGain >= RequiredGain]_vars

\* C4 amended: the bound holds for every MinReorgWeightDeltaP > 0; with
\* MinReorgWeightDeltaP = 0 the guard is off and the new chain is only known
\* not to be lighter than the old one.
C4_WeightDelta ==
    [][TipChanges /\ DroppedFrom(bc.Chain, bc'.Chain) # {} =>
        IF bc.Config.MinReorgWeightDeltaP > 0 THEN WeightGain >= RequiredGain
        ELSE WeightGain >= 0]_vars

\* a reorg has been accepted under a positive MinReorgWeightDeltaP
C4_Witness ==
    /\ bc.Config.MinReorgWeightDeltaP > 0
    /\ bc.ReorgStats.Info + bc.ReorgStats.Warn > 0

(***************************************************************************)
(* C5                                                                      *)
(***************************************************************************)
\* C5: snapshot immutability: a snapshot that exists is still there, with the
\* same validator-to-stake map and TotalStake, after every call; and
\* ensureSnapshot on an epoch that has a snapshot changes nothing.
C5_SnapshotImmutable ==
    /\ [][\A e \in DOMAIN bc.snapshots :
            e \in DOMAIN bc'.snapshots /\ bc'.snapshots[e] = bc.snapshots[e]]_vars
    /\ [](\A e \in DOMAIN bc.snapshots : ensureSnapshot(bc, e) = bc)

\* two epochs are frozen and the registry has moved away from a snapshot
C5_Witness ==
    /\ Cardinality(DOMAIN bc.snapshots) >= 2
    /\ \E e \in DOMAIN bc.snapshots : \E n \in DOMAIN bc.snapshots[e].Validators :
          \/ n \notin DOMAIN bc.Validators
          \/ bc.Validators[n].Stake # bc.snapshots[e].Validators[n]

(***************************************************************************)
(* C6                                                                      *)
(***************************************************************************)
\* C6: single producer per slot: no two blocks of the canonical chain have the
\* same slot.
C6_OneBlockPerSlot ==
    \A i, j \in 1..Len(bc.Chain) : i # j => bc.Chain[i].Slot # bc.Chain[j].Slot

\* the chain has three blocks and the DAG has a block off the chain
C6_Witness == Len(bc.Chain) >= 3 /\ Cardinality(DOMAIN bc.Blocks) > Len(bc.Chain)

(***************************************************************************)
(* C7                                                                      *)
(***************************************************************************)
\* the engine with the signatures of its blocks blanked
Unsigned(b) ==
    [b EXCEPT !.Blocks = [h \in DOMAIN b.Blocks |->
                              [b.Blocks[h] EXCEPT !.Signature = NoSignature]],
              !.Chain = [i \in 1..Len(b.Chain) |->
                              [b.Chain[i] EXCEPT !.Signature = NoSignature]]]

\* C7: determinism: two engines built with the same configuration with
\* DeterministicPoH = true, given the same calls with the same arguments, are
\* in the same state after every call but for the signatures of their blocks
\* (leaders, block hashes, canonical chain, FinalizedSlot, reorg counters and
\* everything else), and the calls return the same results.
C7_Determinism ==
    bc.Config.DeterministicPoH =>
        Unsigned(bc) = Unsigned(replica) /\ ret = retReplica

\* deterministic engines that differ in a signature, after a rejected fork
C7_Witness ==
    /\ bc.Config.DeterministicPoH
    /\ bc # replica
    /\ Len(bc.Chain) >= 3
    /\ bc.ReorgStats.Error > 0

(***************************************************************************)
(* C8                                                                      *)
(***************************************************************************)
\* the step is a production in a slot that has a producer, and built a block
SecondBlockStep == calls'.ProduceAgain = calls.ProduceAgain + 1 /\ ret'.hash # 0

\* the producer of the step, and the hash recorded for it before the step
StepProducer == slotLeader(bc).leader

RecordedBefore ==
    MapGet(MapGet(bc.SlotProducers, Slot(bc.poh), EmptyMap), StepProducer, 0)

JailedUntil(b, v) == MapGet(b.Stats, v, NewStats).JailedUntilEpoch

\* the proof, the mark, the stake and the block of an equivocation: one proof
\* {slot, validator, first hash, new hash} is appended, Slashed is set, the
\* stake loses max(1, stake * SlashPercent / 100) (the validator is removed when
\* that leaves less than MinStake; the call then rewards a validator that is
\* still there), the block is in the DAG under its parent, the call returns
\* the equivocation error
EquivocationHandled ==
    /\ bc'.Equivocations =
          Append(bc.Equivocations,
                 [Slot |-> Slot(bc.poh), Validator |-> StepProducer,
                  BlockA |-> RecordedBefore, BlockB |-> ret'.hash])
    /\ bc'.Stats[StepProducer].Slashed
    /\ LET old == bc.Validators[StepProducer].Stake
           cut == IF (old * SlashPercent) \div 100 = 0 THEN 1
                  ELSE (old * SlashPercent) \div 100
       IN IF old - cut < MinStake THEN StepProducer \notin DOMAIN bc'.Validators
          ELSE bc'.Validators[StepProducer].Stake = (old - cut) + BlockReward
    /\ ret'.hash \in DOMAIN bc'.Blocks
    /\ bc'.Blocks[ret'.hash].Slot = Slot(bc.poh)
    /\ bc'.Blocks[ret'.hash].Validator = StepProducer
    /\ bc'.Parents[ret'.hash] = bc'.Blocks[ret'.hash].PrevHash
    /\ ret'.err = "equivocation detected"

\* a block recorded with the same hash: no proof, no error
SameHashIgnored ==
    SecondBlockStep /\ RecordedBefore = ret'.hash =>
        bc'.Equivocations = bc.Equivocations /\ ret'.err = "nil"

C9_Original ==
    [][AddBlockStep /\ ret'.err = "nil" =>
        /\ TipChanges
        /\ bc'.CanonicalTip \in DOMAIN bc'.Blocks
        /\ bc'.Blocks[bc'.CanonicalTip].PrevHash = bc.CanonicalTip
        /\ bc'.Blocks[bc'.CanonicalTip].Slot = Slot(bc'.poh)
        /\ Len(bc'.Chain) = Len(bc.Chain) + 1
        /\ bc'.State =
              ApplyTransactions(bc.State,
                                bc'.Blocks[bc'.CanonicalTip].Transactions).state
        /\ bc'.ReorgStats = bc.ReorgStats]_vars

(***************************************************************************)
(* C10                                                                     *)
(***************************************************************************)
\* the chain that ends in the block the step returned
ForkChain == walkBack(bc'.Blocks, ret'.hash, <<>>).chain

\* the block of the step scores strictly better than the canonical tip
ScoresBetter ==
    betterScore([Slot |-> bc'.Blocks[ret'.hash].Slot,
                 CumulativeWeight |-> ChainWeight(bc', ForkChain),
                 Hash |-> ret'.hash],
                [Slot |-> chainTipSlot(bc),
                 CumulativeWeight |-> ChainWeight(bc', bc.Chain),
                 Hash |-> bc.CanonicalTip])

\* the three guards, on the chain before the step and the fork
TouchesFinal ==
    /\ bc.FinalizedSlot > 0
    /\ computeReorgDepthAndSlot(bc.Chain, ForkChain).slot <= bc.FinalizedSlot

TooDeep == computeReorgDepthAndSlot(bc.Chain, ForkChain).depth > bc.Config.MaxReorgDepth

TooLight ==
    /\ bc.Config.MinReorgWeightDeltaP > 0
    /\ ChainWeight(bc', ForkChain) - ChainWeight(bc', bc.Chain) < RequiredGain

\* AddBlockExternal accepted a block that scores better and fails a guard
GuardRejects ==
    /\ AddBlockExternalStep
    /\ ret'.hash \in DOMAIN bc'.Blocks
    /\ ScoresBetter
    /\ TouchesFinal \/ TooDeep \/ TooLight

\* the call returns the hash and no error, the block stays in the DAG under
\* its parent, and the tip, the chain, the state and FinalizedSlot are as before
RejectionSilent ==
    /\ ret'.err = "nil"
    /\ ret'.hash \notin DOMAIN bc.Blocks
    /\ bc'.Parents[ret'.hash] = bc'.Blocks[ret'.hash].PrevHash
    /\ bc'.Parents[ret'.hash] \in DOMAIN bc.Blocks
    /\ bc'.CanonicalTip = bc.CanonicalTip
    /\ bc'.Chain = bc.Chain
    /\ bc'.State = bc.State
    /\ bc'.FinalizedSlot = bc.FinalizedSlot

\* C10 as stated: a block accepted by AddBlockExternal that scores strictly
\* better and fails a guard is retained without an error and moves nothing;
\* in particular a fork of equal cumulative weight increments the Error
\* counter and leaves the tip unchanged.
C10_Original ==
    [][GuardRejects =>
        /\ RejectionSilent
        /\ ChainWeight(bc', ForkChain) = ChainWeight(bc', bc.Chain) =>
              bc'.ReorgStats.Error = bc.ReorgStats.Error + 1]_vars

\* C10 amended: the same, with the counter by guard: a rejected fork (of equal
\* cumulative weight in particular) increments the Critical counter alone when
\* it touches a finalized slot, and the Error counter alone otherwise.
C10_GuardRejection ==
    [][GuardRejects =>
        /\ RejectionSilent
        /\ bc'.ReorgStats =
              IF TouchesFinal
              THEN [bc.ReorgStats EXCEPT !.Critical = @ + 1]
              ELSE [bc.ReorgStats EXCEPT !.Error = @ + 1]]_vars

\* a fork of equal weight and higher slot has just been turned away by the
\* weight-delta guard
C10_Witness ==
    /\ ret.op = "AddBlockExternal"
    /\ ret.err = "nil"
    /\ ret.hash \in DOMAIN bc.Blocks
    /\ ret.hash # bc.CanonicalTip
    /\ bc.Blocks[ret.hash].Slot > chainTipSlot(bc)
    /\ \E i \in DOMAIN bc.Logger : bc.Logger[i].what = "weight"

(***************************************************************************)
(* C11                                                                     *)
(***************************************************************************)
\* the leader a production call entered on the engine b draws
DrawnLeader(b) == slotLeader([b EXCEPT !.poh = Tick(b.poh, TicksPerSlot)]).leader

\* the registry after a penalty of SlashPenalty on name: the stake reduced by
\* exactly SlashPenalty, or the entry removed when the remainder is below
\* MinStake; a name without an entry has nothing to lose
Penalized(validators, name) ==
    IF name \notin DOMAIN validators THEN validators
    ELSE IF validators[name].Stake - SlashPenalty < MinStake
        THEN [n \in DOMAIN validators \ {name} |-> validators[n]]
    ELSE [validators EXCEPT ![name].Stake = validators[name].Stake - SlashPenalty]

\* the errors returned before the leader is drawn
EntryErrors == {"no validators available", "unknown parent hash"}

\* the call that returned the frame r failed after the leader was drawn
FailedAfterDraw(r) == r.err \notin {"nil"} \cup EntryErrors

\* the frame r of a call entered on b has the leader penalized, once
LeaderPenalized(b, r) == r.bc.Validators = Penalized(b.Validators, DrawnLeader(b))

\* the validation of the block to produce on parent h is reached: the
\* signatures fail, or the state at the parent can be derived
ValidationReached(b, h, txs) ==
    VerifyTransactions(txs) # "nil" \/ stateAtTip(b, h).err = "nil"

Producing(b) == slotLeader([b EXCEPT !.poh = Tick(b.poh, TicksPerSlot)]).bc

TipBlock(e) == e.Blocks[e.CanonicalTip]

\* the root of the state after the transactions; the root of the state itself
\* when they cannot be applied
RootAfter(state, txs) ==
    IF ApplyTransactions(state, txs).err = "nil"
    THEN StateRoot(ApplyTransactions(state, txs).state)
    ELSE StateRoot(state)

\* a root, a hash other than x
Other(x) == x + 1

\* the signing keys a block may come with; 0 leaves it unsigned
SignerKeys == {0, 1, 2}

\* the field changed before signing, "" for none
Changes == {"", "PrevHash", "TxRoot", "StateRoot"}

Presented(key, header) == IF key = 0 THEN header ELSE SignBlock(key, header, 1)

\* the block for the slot of e on the canonical tip and state, named after
\* who, with the transactions txs, signed with key after its PrevHash, TxRoot
\* or StateRoot was changed where the flag says so
Proposed(e, who, txs, key, badPrev, badTxRoot, badStateRoot) ==
    Presented(key,
        [Index |-> TipBlock(e).Index + 1,
         PrevHash |-> IF badPrev THEN Other(TipBlock(e).Hash) ELSE TipBlock(e).Hash,
         Slot |-> Slot(e.poh), Tick |-> e.poh.CurrentTick, Validator |-> who,
         TxRoot |-> IF badTxRoot THEN Other(TxRoot(txs)) ELSE TxRoot(txs),
         StateRoot |-> IF badStateRoot THEN Other(RootAfter(e.State, txs))
                       ELSE RootAfter(e.State, txs),
         PoHHash |-> e.poh.Hash, Signature |-> NoSignature, Hash |-> 0,
         Transactions |-> txs])

Accepted(e, block) == verifyBlockOnAccept(e, TipBlock(e), block, e.State).err = "nil"

\* what an accepted block has to satisfy, against the tip and the state of e
SoundBlock(e, block) ==
    /\ block.PrevHash = TipBlock(e).Hash
    /\ block.Validator =
          LeaderFromSnapshot(block.Slot,
                             e.snapshots[epochForSlot(e, block.Slot)].Validators)
    /\ \A i \in 1..Len(block.Transactions) :
          VerifyTransactionSignature(block.Transactions[i]) = "nil"
    /\ block.TxRoot = TxRoot(block.Transactions)
    /\ ApplyTransactions(e.State, block.Transactions).err = "nil"
    /\ block.StateRoot = StateRoot(ApplyTransactions(e.State, block.Transactions).state)
    /\ block.Validator \in DOMAIN e.Validators
    /\ VerifyBlockSignature(block, e.Validators[block.Validator].PubKey) = "nil"

\* key is a signing key and not the key of the validator who
ForeignKey(e, who, key) ==
    /\ key # 0
    /\ who \in DOMAIN e.Validators => PubKeyOf(key) # e.Validators[who].PubKey

\* C12: in every reachable state, for every block proposed for the next slot
\* (named after the leader or another validator, any transaction list, any
\* signing key, one of PrevHash, TxRoot and StateRoot changed before signing
\* or none): verifyBlockOnAccept returns nil only if PrevHash is the parent's
\* hash, the validator is the snapshot leader of the slot, every transaction
\* verifies, TxRoot is the root of the transactions, the transactions apply to
\* the pre-state and give StateRoot, the validator is in the registry and the
\* signature verifies under its public key; and a block signed after a change
\* of TxRoot, StateRoot or PrevHash, or signed with a key that is not the
\* named validator's, is rejected.
C12_AcceptanceSound ==
    \A e \in {Producing(bc)} :
    \A who \in {DrawnLeader(bc), "Bob"}, txs \in TxLists, key \in SignerKeys :
    \A changed \in Changes :
    \A block \in {Proposed(e, who, txs, key, changed = "PrevHash",
                          changed = "TxRoot", changed = "StateRoot")} :
    \A ok \in {Accepted(e, block)} :
        /\ ok => SoundBlock(e, block)
        /\ changed # "" \/ ForeignKey(e, who, key) => ~ok

\* Alice leads the next slot and the wallet of key 1 can pay: her block with
\* the transfer is accepted, and the same block signed again after a change
\* of its StateRoot is rejected for the state root
C12_Witness ==
    \E e \in {Producing(bc)} :
        /\ DrawnLeader(bc) = "Alice"
        /\ Accepted(e, Proposed(e, "Alice", <<Transfer>>, 1, FALSE, FALSE, FALSE))
        /\ verifyBlockOnAccept(e, TipBlock(e),
                               Proposed(e, "Alice", <<Transfer>>, 1, FALSE, FALSE, TRUE),
                               e.State).err = "invalid state root for block"

(***************************************************************************)
(* C13                                                                     *)
(***************************************************************************)
\* the rules of acceptance up to the tx root, in the order of the claim: the
\* error of the first one the block breaks, "nil" when it breaks none.  The
\* snapshot of the block's slot is never missing: snapshotForSlot freezes it.
BrokenBeforeApply(e, block) ==
    IF block.PrevHash # TipBlock(e).Hash THEN "invalid prev hash for block"
    ELSE IF epochForSlot(e, block.Slot) \notin DOMAIN e.snapshots
        THEN "missing epoch snapshot for block"
    ELSE IF block.Validator #
            LeaderFromSnapshot(block.Slot,
                               e.snapshots[epochForSlot(e, block.Slot)].Validators)
        THEN "wrong leader"
    ELSE IF \E i \in 1..Len(block.Transactions) :
                VerifyTransactionSignature(block.Transactions[i]) # "nil"
        THEN "invalid transaction signature at index"
    ELSE IF block.TxRoot # TxRoot(block.Transactions) THEN "invalid tx root for block"
    ELSE "nil"

\* the rules after the transactions were applied, in the order of the claim
BrokenAfterApply(e, block) ==
    IF block.StateRoot # StateRoot(ApplyTransactions(e.State, block.Transactions).state)
        THEN "invalid state root for block"
    ELSE IF block.Validator \notin DOMAIN e.Validators THEN "unknown validator for block"
    ELSE VerifyBlockSignature(block, e.Validators[block.Validator].PubKey)

\* the error the claim expects of the block, given the error it expects when
\* the transactions cannot be applied to the pre-state
FirstBroken(e, block, unapplied) ==
    IF BrokenBeforeApply(e, block) # "nil" THEN BrokenBeforeApply(e, block)
    ELSE IF ApplyTransactions(e.State, block.Transactions).err # "nil" THEN unapplied
    ELSE BrokenAfterApply(e, block)

\* the blocks proposed for the next slot: named after the leader or Bob, any
\* transaction list, signed with key 1 or 2, any of PrevHash, TxRoot and
\* StateRoot changed before signing
ProposedBlocks(e, leader) ==
    {Proposed(e, who, txs, key, badPrev, badTxRoot, badStateRoot) :
        who \in {leader, "Bob"}, txs \in TxLists, key \in {1, 2},
        badPrev \in BOOLEAN, badTxRoot \in BOOLEAN, badStateRoot \in BOOLEAN}

AcceptError(e, block) == verifyBlockOnAccept(e, TipBlock(e), block, e.State).err

\* C13 as claimed: in every reachable state, for every block proposed for the
\* next slot, whatever rules it breaks, verifyBlockOnAccept returns the error
\* of the first broken rule in the order invalid prev hash, missing epoch
\* snapshot, wrong leader, invalid transaction signature, invalid tx root,
\* invalid state root (also when the transactions cannot be applied), unknown
\* validator, invalid block signature.
C13_Original ==
    \A e \in {Producing(bc)} : \A block \in ProposedBlocks(e, DrawnLeader(bc)) :
        AcceptError(e, block) = FirstBroken(e, block, "invalid state root for block")

\* C13 amended: the same order, with the error of ApplyTransactions itself
\* (invalid amount, missing sender, insufficient balance) returned at the
\* place of the state root when the transactions cannot be applied.
C13_CheckOrder ==
    \A e \in {Producing(bc)} : \A block \in ProposedBlocks(e, DrawnLeader(bc)) :
        AcceptError(e, block) =
            FirstBroken(e, block, ApplyTransactions(e.State, block.Transactions).err)

\* the sender of the transfer has no balance: a block with the transfer, a
\* changed StateRoot and a foreign signature, named after the leader Alice, is
\* refused for the balance; with a changed PrevHash as well, for the prev hash
C13_Witness ==
    \E e \in {Producing(bc)} :
        /\ DrawnLeader(bc) = "Alice"
        /\ AcceptError(e, Proposed(e, "Alice", <<Transfer>>, 2, FALSE, FALSE, TRUE))
              = "insufficient balance"
        /\ AcceptError(e, Proposed(e, "Alice", <<Transfer>>, 2, TRUE, FALSE, TRUE))
              = "invalid prev hash for block"

(***************************************************************************)
(* C14                                                                     *)
(***************************************************************************)
\* the chain from genesis to the block h of the engine b
ChainTo(b, h) == walkBack(b.Blocks, h, <<>>).chain

\* the cumulative snapshot weight of the tip h, under the snapshots of the
\* engine after the step
TipWeight(h) == ChainWeight(bc', ChainTo(bc', h))

\* the tip after the step scores strictly better than the tip before it:
\* heavier, or as heavy and of a higher slot, or as heavy, of the same slot
\* and of a smaller hash
StrictlyBetter(new, old) ==
    \/ TipWeight(new) > TipWeight(old)
    \/ /\ TipWeight(new) = TipWeight(old)
       /\ bc'.Blocks[new].Slot > bc'.Blocks[old].Slot
    \/ /\ TipWeight(new) = TipWeight(old)
       /\ bc'.Blocks[new].Slot = bc'.Blocks[old].Slot
       /\ new < old

\* C14: whenever CanonicalTip changes from a to b, the score of b is strictly
\* better than the score of a (cumulative snapshot weight, then slot, then
\* smaller hash): a block that is not strictly better never replaces the tip.
C14_ForkChoiceStrict ==
    [][TipChanges => StrictlyBetter(bc'.CanonicalTip, bc.CanonicalTip)]_vars

\* a fork as heavy as the chain it replaced has just taken the tip by its slot
C14_Witness ==
    /\ ret.op = "AddBlockExternal"
    /\ ret.hash = bc.CanonicalTip
    /\ \E h \in DOMAIN bc.Blocks :
          /\ h \notin HashesOf(bc.Chain)
          /\ ChainWeight(bc, ChainTo(bc, h)) = ChainWeight(bc, bc.Chain)
          /\ bc.Blocks[h].Slot = chainTipSlot(bc) - 1

(***************************************************************************)
(* C15                                                                     *)
(***************************************************************************)
\* the slots of the runs, and the one after them
RunSlots == 0..(MaxSlot + 1)

\* the engine b has the snapshot of the epoch of slot s
Frozen(b, s) == epochForSlot(b, s) \in DOMAIN b.snapshots

\* the stakes of the live registry
LiveStakes(b) == [n \in DOMAIN b.Validators |-> b.Validators[n].Stake]

\* C15: for every slot s whose epoch snapshot exists, leaderForSlot(s) returns
\* after every step the validator it returned before the step, whatever the
\* step did to the registry and the stats.
C15_LeaderStable ==
    [][\A s \in RunSlots :
          Frozen(bc, s) => leaderForSlot(bc', s).leader = leaderForSlot(bc, s).leader]_vars

\* the epoch of slot 1 is frozen and the registry has changed since, so that
\* a draw over the live stakes would name another leader for a slot of it
C15_Witness ==
    /\ Frozen(bc, 1)
    /\ \E s \in RunSlots :
          /\ epochForSlot(bc, s) = epochForSlot(bc, 1)
          /\ LeaderFromSnapshot(s, LiveStakes(bc)) # leaderForSlot(bc, s).leader

(***************************************************************************)
(* C16                                                                     *)
(***************************************************************************)
\* the stake maps of the engine b: its snapshots and its live registry
StakeMaps(b) == {b.snapshots[e].Validators : e \in DOMAIN b.snapshots} \cup {LiveStakes(b)}

TotalOf(stakes) == SumStakes(stakes, DOMAIN stakes)

\* the sum of the stakes of the names lexicographically before n
StakeBefore(stakes, n) ==
    SumStakes(stakes, {m \in DOMAIN stakes : NameCode(m) < NameCode(n)})

\* the validators whose stake interval holds the draw d
Holders(stakes, d) ==
    {n \in DOMAIN stakes :
        StakeBefore(stakes, n) <= d /\ d < StakeBefore(stakes, n) + stakes[n]}

\* the slots deterministicDraw is tabulated for
DrawSlots == 0..(Len(DrawLimbs) - 1)

\* C16: in every reachable state, for every stake map of the engine with total
\* stake T: when T = 0 LeaderFromSnapshot returns "genesis" at every slot;
\* when T > 0, for every draw d in [0, T) exactly one validator n has
\* (stake of the names before n) <= d < (the same) + stake(n), the walk over
\* the sorted names returns that validator, a member with positive stake and
\* never "genesis", and LeaderFromSnapshot returns at every slot the validator
\* of the slot's draw, which lies in [0, T).
C16_LeaderDraw ==
    \A stakes \in StakeMaps(bc) :
    \A total \in {TotalOf(stakes)}, names \in {sortedStakeNames(stakes)} :
        IF total = 0
        THEN \A slot \in DrawSlots : LeaderFromSnapshot(slot, stakes) = "genesis"
        ELSE /\ \A d \in 0..(total - 1) :
                   \A n \in {LeaderWalk(stakes, names, d, 0)} :
                      /\ Holders(stakes, d) = {n}
                      /\ n \in DOMAIN stakes
                      /\ stakes[n] > 0
                      /\ n # "genesis"
             /\ \A slot \in DrawSlots :
                   /\ deterministicDraw(slot, total) \in 0..(total - 1)
                   /\ Holders(stakes, deterministicDraw(slot, total))
                         = {LeaderFromSnapshot(slot, stakes)}

\* a snapshot of two validators in which each of them leads some slot
C16_Witness ==
    \E e \in DOMAIN bc.snapshots :
        /\ Cardinality(DOMAIN bc.snapshots[e].Validators) = 2
        /\ \A n \in DOMAIN bc.snapshots[e].Validators :
              \E slot \in DrawSlots :
                 LeaderFromSnapshot(slot, bc.snapshots[e].Validators) = n

(***************************************************************************)
(* C17                                                                     *)
(***************************************************************************)
\* JailedUntilEpoch of the validator in the engine b, 0 without stats
JailedUntilOf(b, n) == IF n \in DOMAIN b.Stats THEN b.Stats[n].JailedUntilEpoch ELSE 0

\* the validators the claim puts in the snapshot of the epoch, from the
\* registry of the engine b
ClaimedMembers(b, epoch) ==
    {n \in DOMAIN b.Validators :
        b.Validators[n].Stake >= MinStake /\ JailedUntilOf(b, n) <= epoch}

\* the epochs whose snapshot the step creates
CreatedEpochs == DOMAIN bc'.snapshots \ DOMAIN bc.snapshots

\* C17: whatever the configured EpochLength, a snapshot created for epoch E
\* contains exactly the validators that have, in the live registry at that
\* moment, stake >= MinStake and JailedUntilEpoch <= E, each with its live
\* stake, and TotalStake is the sum of the included stakes.
C17_Original ==
    [][\A epoch \in CreatedEpochs :
          /\ bc'.snapshots[epoch].Validators =
                [n \in ClaimedMembers(bc, epoch) |-> bc.Validators[n].Stake]
          /\ bc'.snapshots[epoch].TotalStake =
                TotalOf(bc'.snapshots[epoch].Validators)]_vars

(***************************************************************************)
(* C18                                                                     *)
(***************************************************************************)
\* the validator is jailed at the slot: the slot's epoch, counted in
\* SlotsPerEpoch, is below its JailedUntilEpoch
JailedAt(b, n, slot) == slot \div SlotsPerEpoch < JailedUntilOf(b, n)

\* the snapshot the engine uses at the slot
SnapshotAt(b, slot) == b.snapshots[epochForSlot(b, slot)]

\* C18 as claimed: in every reachable state a validator that is jailed at the
\* slot of the canonical tip (the epoch of the slot is below its
\* JailedUntilEpoch, counted in SlotsPerEpoch and in the configured
\* EpochLength alike) is not a member of the snapshot used for that slot, so
\* it is not counted in activeStake, and it is not the slot's leader.
C18_Original ==
    \A n \in DOMAIN bc.Stats :
        (/\ Frozen(bc, chainTipSlot(bc))
         /\ JailedAt(bc, n, chainTipSlot(bc))
         /\ epochForSlot(bc, chainTipSlot(bc)) < JailedUntilOf(bc, n))
        => /\ n \notin DOMAIN SnapshotAt(bc, chainTipSlot(bc)).Validators
           /\ leaderForSlot(bc, chainTipSlot(bc)).leader # n

\* the slots of the epoch among those the draw is tabulated for
SlotsOfEpoch(b, epoch) == {s \in DrawSlots : epochForSlot(b, s) = epoch}

\* C18 amended: a validator that is jailed at the first slot of an epoch when
\* the snapshot of the epoch is created is not a member of that snapshot, is
\* not counted in its TotalStake (the active stake of the epoch), and is the
\* leader of no slot of the epoch.  (A validator jailed after the snapshot was
\* created stays in it for the rest of the epoch.)
C18_JailedExcluded ==
    [][\A epoch \in CreatedEpochs : \A n \in DOMAIN bc.Stats :
          JailedAt(bc, n, epoch * bc.Config.EpochLength) =>
              /\ n \notin DOMAIN bc'.snapshots[epoch].Validators
              /\ bc'.snapshots[epoch].TotalStake =
                    TotalOf(bc'.snapshots[epoch].Validators)
              /\ \A s \in SlotsOfEpoch(bc', epoch) : leaderForSlot(bc', s).leader # n]_vars

\* a validator with stake to be a member, in the snapshot of an earlier epoch,
\* was jailed when the snapshot of the current slot was created and is not in it
C18_Witness ==
    \E n \in DOMAIN bc.Validators, e0 \in DOMAIN bc.snapshots :
        /\ bc.Validators[n].Stake >= MinStake
        /\ JailedAt(bc, n, Slot(bc.poh))
        /\ n \in DOMAIN bc.snapshots[e0].Validators
        /\ e0 < epochForSlot(bc, Slot(bc.poh))
        /\ Frozen(bc, Slot(bc.poh))
        /\ n \notin DOMAIN SnapshotAt(bc, Slot(bc.poh)).Validators

(***************************************************************************)
(* C19                                                                     *)
(***************************************************************************)
\* the stats of the leader l, fresh when it has none
StatsOf(acc, l) == MapGet(acc.Stats, l, NewStats)

\* the leader l is charged the slot s in acc = [Stats, Validators]: one more
\* missed slot, or, past MaxMissedSlots, the slash by SlashPercent, the
\* counter back at 0 and the jail until s / SlotsPerEpoch + JailEpochs
ChargedTo(acc, l, s) ==
    IF StatsOf(acc, l).MissedSlots + 1 > MaxMissedSlots
    THEN [Stats |-> MapPut(acc.Stats, l,
                           [StatsOf(acc, l) EXCEPT
                               !.MissedSlots = 0,
                               !.JailedUntilEpoch = (s \div SlotsPerEpoch) + JailEpochs]),
          Validators |-> SlashValidatorPercent(acc.Validators, l, SlashPercent)]
    ELSE [Stats |-> MapPut(acc.Stats, l,
                           [StatsOf(acc, l) EXCEPT !.MissedSlots = @ + 1]),
          Validators |-> acc.Validators]

\* the slot s is examined against the canonical producer map of the engine e:
\* its snapshot leader is charged exactly when the map does not record it
ExaminedSlot(e, acc, s) ==
    Let(LeaderFromSnapshot(s, SnapshotAt(e, s).Validators), LAMBDA l :
        IF l = "genesis" \/ MapGet(e.SlotProduced, s, "") = l THEN acc
        ELSE ChargedTo(acc, l, s))

\* the slots s..last examined once each, in increasing order
RECURSIVE ExaminedSlots(_, _, _, _)
ExaminedSlots(e, acc, s, last) ==
    IF s > last THEN acc ELSE ExaminedSlots(e, ExaminedSlot(e, acc, s), s + 1, last)

\* the stats as they were, and the registry with the producer rewarded
BeforeMissedSlots ==
    [Stats |-> bc.Stats,
     Validators |-> RewardValidator(bc.Validators, DrawnLeader(bc))]

\* C19: a call of AddBlock or AddBlockExternal leaves LastProcessedSlot at the
\* slot of the canonical tip, never lower than before, and every MissedSlots
\* counter at MaxMissedSlots or below; when it returns nil, the stats and the
\* registry are those obtained by examining once, in increasing order, each
\* slot s from the old LastProcessedSlot + 1 to the new tip slot: the snapshot
\* leader of s gets MissedSlots incremented exactly when the canonical
\* producer map does not record that leader for s, and when the counter
\* exceeds MaxMissedSlots the leader is slashed by SlashPercent, the counter
\* is reset to 0 and JailedUntilEpoch is set to s / SlotsPerEpoch + JailEpochs.
C19_MissedSlots ==
    [][AddBlockStep \/ AddBlockExternalStep =>
        /\ bc'.LastProcessedSlot = chainTipSlot(bc')
        /\ bc.LastProcessedSlot <= bc'.LastProcessedSlot
        /\ \A n \in DOMAIN bc'.Stats : bc'.Stats[n].MissedSlots <= MaxMissedSlots
        /\ ret'.err = "nil" =>
              \A acc \in {ExaminedSlots(bc', BeforeMissedSlots,
                                        bc.LastProcessedSlot + 1, chainTipSlot(bc'))} :
                 /\ bc'.Stats = acc.Stats
                 /\ bc'.Validators = acc.Validators]_vars

\* the call has just moved the tip past four slots their leader is charged
\* for: the leader is jailed and its counter is back at 0
C19_Witness ==
    /\ ret.op \in {"AddBlock", "AddBlockExternal"}
    /\ ret.err = "nil"
    /\ bc.LastProcessedSlot = chainTipSlot(bc)
    /\ bc.LastProcessedSlot = Slot(bc.poh)
    /\ \E n \in DOMAIN bc.Stats :
          /\ bc.Stats[n].JailedUntilEpoch = JailEpochs
          /\ bc.Stats[n].MissedSlots = 0
          /\ Cardinality({s \in 1..bc.LastProcessedSlot :
                            /\ leaderForSlot(bc, s).leader = n
                            /\ MapGet(bc.SlotProduced, s, "") # n}) > MaxMissedSlots

(***************************************************************************)
(* C20                                                                     *)
(***************************************************************************)
\* the transfers of the batches: with and without a sender, to the sender
\* itself or to another address, of an amount that is negative, zero or positive
BatchTransfers ==
    [From : {0, AddressFromPubKey(1)},
     To : {AddressFromPubKey(1), AddressFromPubKey(2)},
     Amount : {-1, 0, 2, 3}]

\* the batches of at most two transfers
Batches ==
    {<<>>} \cup {<<t>> : t \in BatchTransfers}
           \cup {<<t, u>> : t \in BatchTransfers, u \in BatchTransfers}

\* what the first k transfers of the batch take from the address a, give to it
RECURSIVE Debits(_, _, _)
Debits(txs, k, a) ==
    IF k = 0 THEN 0
    ELSE Debits(txs, k - 1, a) + (IF txs[k].From = a THEN txs[k].Amount ELSE 0)

RECURSIVE Credits(_, _, _)
Credits(txs, k, a) ==
    IF k = 0 THEN 0
    ELSE Credits(txs, k - 1, a) + (IF txs[k].To = a THEN txs[k].Amount ELSE 0)

\* the balance of a after the first k transfers of the batch
BalanceAfter(state, txs, k, a) ==
    MapGet(state, a, 0) - Debits(txs, k, a) + Credits(txs, k, a)

\* some transfer of the batch has an amount <= 0, no sender, or a sender whose
\* balance after the preceding transfers is below the amount
BatchRejected(state, txs) ==
    \E i \in 1..Len(txs) :
        \/ txs[i].Amount <= 0
        \/ txs[i].From = 0
        \/ BalanceAfter(state, txs, i - 1, txs[i].From) < txs[i].Amount

\* the addresses a batch touches
Parties(txs) == {txs[i].From : i \in 1..Len(txs)} \cup {txs[i].To : i \in 1..Len(txs)}

\* the sum of the balances of a state
SumOfBalances(state) == SumStakes(state, DOMAIN state)

\* ApplyTransactions on the state of the engine, for every batch
BatchApplied ==
    \A txs \in Batches : \A r \in {ApplyTransactions(bc.State, txs)} :
        IF BatchRejected(bc.State, txs)
        THEN r.err # "nil" /\ r.state = EmptyMap
        ELSE /\ r.err = "nil"
             /\ DOMAIN r.state = DOMAIN bc.State \cup Parties(txs)
             /\ \A a \in DOMAIN r.state :
                   /\ r.state[a] = BalanceAfter(bc.State, txs, Len(txs), a)
                   /\ r.state[a] >= 0
             /\ SumOfBalances(r.state) = SumOfBalances(bc.State)

\* State is the replay of the canonical chain from the Genesis balances
InSync(b) ==
    \A r \in {stateAtTip(b, b.CanonicalTip)} : r.err = "nil" /\ r.state = b.State

\* C20 as stated: ApplyTransactions returns an error with no resulting state
\* if some transaction of the batch has amount <= 0, an empty sender, or a
\* sender balance (after the preceding transactions of the batch) below its
\* amount, and otherwise its result differs from the input exactly by debiting
\* each sender and crediting each receiver in order; no balance is ever
\* negative, a failed AddBlock leaves State unchanged, and every call of
\* AddBlock preserves the sum of the balances.
C20_Original ==
    /\ [](BatchApplied /\ \A a \in DOMAIN bc.State : bc.State[a] >= 0)
    /\ [][AddBlockStep =>
            /\ ret'.err # "nil" => bc'.State = bc.State
            /\ SumOfBalances(bc'.State) = SumOfBalances(bc.State)]_vars

\* C20: as C20_Original, with the sum of the balances preserved by the calls
\* of AddBlock and AddBlockExternal that find State equal to the replay of the
\* canonical chain from the Genesis balances, which they leave so.
C20_BatchAtomic ==
    /\ [](BatchApplied /\ \A a \in DOMAIN bc.State : bc.State[a] >= 0)
    /\ [][AddBlockStep /\ ret'.err # "nil" => bc'.State = bc.State]_vars
    /\ [][(AddBlockStep \/ AddBlockExternalStep) /\ InSync(bc) =>
            /\ SumOfBalances(bc'.State) = SumOfBalances(bc.State)
            /\ InSync(bc')]_vars

\* AddBlock has failed on a batch whose sender cannot pay, and has succeeded
\* on one that moved the amount from the sender to the receiver
C20_Witness ==
    /\ ret.op = "AddBlock"
    /\ ret.err = "nil"
    /\ MapGet(bc.State, AddressFromPubKey(1), 0) = 2
    /\ MapGet(bc.State, AddressFromPubKey(2), 0) = 3
    /\ ApplyTransactions(bc.State, <<Transfer>>).err = "insufficient balance"
    /\ InSync(bc)

(***************************************************************************)
(* C21                                                                     *)
(***************************************************************************)
\* the names, amounts and percentages the slashing rules are tried with
SlashNames == {"Alice", "Bob", "Charlie", "Nobody"}

SlashAmounts == {-1, 0, 1, 5, 9, 10, 11, 90, 91, 100, 200}

SlashPercents == {-1, 0, 1, 2, 5, 50, 99, 100, 150}

\* a / b as Go divides: truncated toward zero
Quot(a, b) == IF a >= 0 THEN a \div b ELSE -((-a) \div b)

\* the slashing rule: the amount is subtracted, and the entry removed when
\* the result is <= 0 or below MinStake
SlashRule(validators, name, amount) ==
    IF name \notin DOMAIN validators \/ amount <= 0 THEN validators
    ELSE IF validators[name].Stake - amount <= 0
              \/ validators[name].Stake - amount < MinStake
        THEN [n \in DOMAIN validators \ {name} |-> validators[n]]
    ELSE [n \in DOMAIN validators |->
            IF n = name THEN [validators[n] EXCEPT !.Stake = @ - amount]
            ELSE validators[n]]

\* max(1, stake * p / 100)
PercentAmount(validators, name, p) ==
    IF Quot(validators[name].Stake * p, 100) > 1
    THEN Quot(validators[name].Stake * p, 100) ELSE 1

\* SlashValidator follows the rule on every name and amount
SlashFollowsRule ==
    \A name \in SlashNames : \A amount \in SlashAmounts :
        SlashValidator(bc.Validators, name, amount)
            = SlashRule(bc.Validators, name, amount)

\* C21 as stated: SlashValidator(name, amount) follows the slashing rule, and
\* SlashValidatorPercent(name, p) slashes max(1, stake * p / 100) whatever p is.
C21_Original ==
    /\ SlashFollowsRule
    /\ \A name \in SlashNames \cap DOMAIN bc.Validators : \A p \in SlashPercents :
          SlashValidatorPercent(bc.Validators, name, p)
              = SlashRule(bc.Validators, name, PercentAmount(bc.Validators, name, p))

\* C21: SlashValidator(name, amount) with amount > 0 on a registered validator
\* subtracts amount from its stake and removes the entry when the result is
\* <= 0 or below MinStake; on an unknown name or amount <= 0 the registry is
\* unchanged.  SlashValidatorPercent(name, p) with p > 0 slashes
\* max(1, stake * p / 100) with integer division, and leaves the registry
\* unchanged with p <= 0 or an unknown name.
C21_SlashRule ==
    /\ SlashFollowsRule
    /\ \A name \in SlashNames : \A p \in SlashPercents :
          SlashValidatorPercent(bc.Validators, name, p)
              = IF p <= 0 \/ name \notin DOMAIN bc.Validators THEN bc.Validators
                ELSE SlashRule(bc.Validators, name,
                               PercentAmount(bc.Validators, name, p))

\* a validator has been slashed four times by SlashPenalty and then, jailed,
\* by SlashPercent of a stake too small for the percentage to reach 1
C21_Witness ==
    /\ \E n \in DOMAIN bc.Validators \cap DOMAIN bc.Stats :
          /\ bc.Stats[n].JailedUntilEpoch > 0
          /\ bc.Validators[n].Stake = 40 - 4 * SlashPenalty - 1
          /\ Quot(bc.Validators[n].Stake * SlashPercent, 100) = 0
    /\ \E name \in DOMAIN bc.Validators :
          SlashValidator(bc.Validators, name, SlashPenalty) # bc.Validators

(***************************************************************************)
(* C22                                                                     *)
(***************************************************************************)
RegistryOps ==
    {"AddValidator", "AddStake", "Unstake", "RewardValidator", "SlashValidator",
     "SlashValidatorPercent"}

\* every validator present in the registry has stake >= MinStake
MinStakeKept == \A n \in DOMAIN bc.Validators : bc.Validators[n].Stake >= MinStake

\* C22: after any sequence of AddValidator, AddStake, Unstake, RewardValidator,
\* SlashValidator and SlashValidatorPercent every validator present in the
\* registry has stake >= MinStake, and a call that returns an error leaves
\* the registry unchanged.
C22_MinStake ==
    /\ []MinStakeKept
    /\ [][ret'.op \in RegistryOps /\ ret'.err # "nil" =>
              bc'.Validators = bc.Validators]_vars

\* Unstake has just refused to leave a validator, whose stake had grown,
\* with a positive stake below MinStake
C22_Witness ==
    /\ ret.op = "Unstake"
    /\ ret.err = "stake below minimum"
    /\ \E n \in DOMAIN bc.Validators :
          /\ bc.Validators[n].Stake > MinStake
          /\ bc.Validators[n].Stake - 4 < MinStake

(***************************************************************************)
(* C23                                                                     *)
(***************************************************************************)
\* the genesis block: the one block whose parent is the GENESIS sentinel
IsGenesis(block) ==
    block.PrevHash = GENESIS /\ block.Index = 0 /\ block.Validator = "genesis"

\* C23: Chain is non-empty, its first element is the genesis block, its last
\* element is the block named by CanonicalTip, and every later element has
\* the hash of the one before as PrevHash, its Index plus one as Index and a
\* Slot that is not lower.
C23_ChainWellFormed ==
    /\ Len(bc.Chain) >= 1
    /\ IsGenesis(bc.Chain[1])
    /\ bc.CanonicalTip \in DOMAIN bc.Blocks
    /\ bc.Chain[Len(bc.Chain)] = bc.Blocks[bc.CanonicalTip]
    /\ bc.Chain[Len(bc.Chain)].Hash = bc.CanonicalTip
    /\ \A i \in 2..Len(bc.Chain) :
          /\ bc.Chain[i].PrevHash = bc.Chain[i - 1].Hash
          /\ bc.Chain[i].Index = bc.Chain[i - 1].Index + 1
          /\ bc.Chain[i].Slot >= bc.Chain[i - 1].Slot

\* a reorg has replaced a block of the chain: the chain has two blocks after
\* genesis and a block of the DAG is off it
C23_Witness ==
    /\ bc.ReorgStats.Info + bc.ReorgStats.Warn > 0
    /\ Len(bc.Chain) >= 3
    /\ \E h \in DOMAIN bc.Blocks :
          \A i \in 1..Len(bc.Chain) : bc.Chain[i].Hash # h

(***************************************************************************)
(* C24                                                                     *)
(***************************************************************************)
\* the validators named by the canonical blocks after genesis
ChainValidators(b) == {b.Chain[i].Validator : i \in 2..Len(b.Chain)}

\* VerifyChain returns nil and leaves every stake as it is
ChainVerifies(b) ==
    \A r \in {VerifyChain(b)} : r.err = "nil" /\ r.bc.Validators = b.Validators

\* C24: in every state reached through AddValidator, AddBlock and
\* AddBlockExternal, failed attempts included and SetBalance never called,
\* VerifyChain returns nil and changes no validator's stake, and every
\* canonical block's named validator is present in the registry.
C24_Original ==
    calls.SetBalance = 0 =>
        /\ ChainVerifies(bc)
        /\ ChainValidators(bc) \subseteq DOMAIN bc.Validators

(***************************************************************************)
(* C25                                                                     *)
(***************************************************************************)
\* [state, err]: the Genesis balances with the transactions of every block
\* of the path after genesis applied, the last block last
RECURSIVE Replayed(_, _)
Replayed(genesisState, path) ==
    IF Len(path) <= 1 THEN [state |-> genesisState, err |-> "nil"]
    ELSE LET before == Replayed(genesisState, SubSeq(path, 1, Len(path) - 1))
         IN IF before.err # "nil" THEN before
            ELSE ApplyTransactions(before.state, path[Len(path)].Transactions)

\* the call r of AddBlockExternal(h, txs) on the engine b, whose parent state
\* is pre, was made against the state at the parent
OnParent(b, h, txs, r, pre) ==
    /\ r.err = "nil" =>
          /\ pre.err = "nil"
          /\ VerifyTransactions(txs) = "nil"
          /\ ApplyTransactions(pre.state, txs).err = "nil"
          /\ r.hash \in DOMAIN r.bc.Blocks \ DOMAIN b.Blocks
          /\ r.bc.Blocks[r.hash].PrevHash = h
          /\ r.bc.Blocks[r.hash].Index = b.Blocks[h].Index + 1
          /\ r.bc.Blocks[r.hash].Transactions = txs
          /\ r.bc.Blocks[r.hash].StateRoot
                = StateRoot(ApplyTransactions(pre.state, txs).state)
    /\ (/\ DOMAIN b.Validators # {}
        /\ pre.err = "nil"
        /\ VerifyTransactions(txs) = "nil"
        /\ ApplyTransactions(pre.state, txs).err # "nil")
       => /\ r.err = ApplyTransactions(pre.state, txs).err
          /\ r.bc.Blocks = b.Blocks

\* C25: in every reachable state, AddBlockExternal(prevHash, txs) on any block
\* prevHash of the DAG, with a validator registered, validates and applies txs against the state obtained by
\* replaying, from the Genesis balances, the transactions of every block on
\* the path from genesis to prevHash, whatever State is: it fails when txs do
\* not apply to that state, and the block it produces carries the root of
\* that state with txs applied, PrevHash = prevHash and
\* Index = parent.Index + 1.
C25_ParentState ==
    \A h \in DOMAIN bc.Blocks : \A txs \in TxLists :
        \A r \in {AddBlockExternal(Entered(bc), h, txs, 1)} :
        \A pre \in {Replayed(bc.Genesis, ChainTo(bc, h))} :
            OnParent(bc, h, txs, r, pre)

\* the canonical chain has spent the sender's balance: the transfer no longer
\* applies to State, and a block carrying it is accepted on genesis
C25_Witness ==
    /\ ApplyTransactions(bc.State, <<Transfer>>).err = "insufficient balance"
    /\ Len(bc.Chain) >= 2
    /\ AddBlockExternal(Entered(bc), bc.Chain[1].Hash, <<Transfer>>, 1).err = "nil"
    /\ InSync(bc)

(***************************************************************************)
(* C26                                                                     *)
(***************************************************************************)
\* following the parent pointers of the engine b from the block h reaches the
\* genesis block within steps steps
RECURSIVE ReachesGenesis(_, _, _)
ReachesGenesis(b, h, steps) ==
    /\ h \in DOMAIN b.Blocks
    /\ h \in DOMAIN b.Parents
    /\ \/ IsGenesis(b.Blocks[h]) /\ b.Parents[h] = GENESIS
       \/ steps > 0 /\ ReachesGenesis(b, b.Parents[h], steps - 1)

\* every block has its parent link, and a path of links to genesis
DagLinked(b) ==
    /\ DOMAIN b.Parents = DOMAIN b.Blocks
    /\ \A h \in DOMAIN b.Blocks :
          /\ b.Blocks[h].Hash = h
          /\ b.Parents[h] = b.Blocks[h].PrevHash
          /\ ReachesGenesis(b, h, Cardinality(DOMAIN b.Blocks) - 1)

\* C26: the blocks of the DAG only grow, a block once inserted is never
\* modified or removed, Parents[h] = Blocks[h].PrevHash for every block, and
\* following parent pointers from any block reaches the genesis block in
\* finitely many steps.
C26_DagRetention ==
    /\ []DagLinked(bc)
    /\ [][\A h \in DOMAIN bc.Blocks :
             /\ h \in DOMAIN bc'.Blocks
             /\ bc'.Blocks[h] = bc.Blocks[h]
             /\ bc'.Parents[h] = bc.Parents[h]]_vars

\* a fork has lost the fork choice to the reorg guard and stays in the DAG,
\* and another block has been inserted since
C26_Witness ==
    /\ bc.ReorgStats.Error > 0
    /\ \E h \in DOMAIN bc.Blocks :
          /\ \A i \in 1..Len(bc.Chain) : bc.Chain[i].Hash # h
          /\ \E g \in DOMAIN bc.Blocks : bc.Blocks[g].Slot > bc.Blocks[h].Slot

(***************************************************************************)
(* C27                                                                     *)
(***************************************************************************)
\* the hashes of the transactions of a list
HashesIn(list) == {list[i].Hash : i \in 1..Len(list)}

\* the pool holds each hash once, byHash has the hashes of the list, and
\* nothing without a hash or with a failing signature is in it
PoolDeduplicated ==
    /\ \A i, j \in 1..Len(mempool.list) :
          mempool.list[i].Hash = mempool.list[j].Hash => i = j
    /\ DOMAIN mempool.byHash = HashesIn(mempool.list)
    /\ \A i \in 1..Len(mempool.list) :
          /\ mempool.list[i].Hash # 0
          /\ VerifyTransactionSignature(mempool.list[i]) = "nil"
          /\ mempool.byHash[mempool.list[i].Hash].Hash = mempool.list[i].Hash

\* the step is the return of the Add of the caller t from under the mutex
AddReturns(t) ==
    /\ mempool.call[t].op = "Add"
    /\ mempool.call[t].pc = "unlock"
    /\ mempool'.call[t].pc = "idle"

\* an Add returns nil or the duplicate error with its hash in the pool
AddLeavesHash ==
    \A t \in DOMAIN mempool.call :
        AddReturns(t) =>
            /\ mempool.call[t].err \in {"nil", "duplicate tx"}
            /\ mempool.call[t].tx.Hash \in HashesIn(mempool'.list)

\* an Add returns the duplicate error only when the pool held the hash as the
\* call was made or an Add of the same hash that ran at the same time has
\* returned nil
DuplicateOfAdded ==
    \A t \in DOMAIN mempool.call :
        AddReturns(t) /\ mempool.call[t].err = "duplicate tx" =>
            mempool.call[t].held \/ mempool.call[t].rivalAdded

\* C27 as stated: the pool is deduplicated under any interleaving of Add and
\* PopForBlock, and of the Add calls of a valid transaction that run at the
\* same time exactly one returns nil: one returns the duplicate error
\* whenever another has returned nil, and only then unless the pool held the
\* transaction already.
C27_Original ==
    /\ []PoolDeduplicated
    /\ [][AddLeavesHash]_vars
    /\ [][DuplicateOfAdded]_vars
    /\ [][\A t \in DOMAIN mempool.call :
             AddReturns(t) /\ mempool.call[t].rivalAdded =>
                 mempool.call[t].err = "duplicate tx"]_vars

\* C27: as C27_Original, for the Add calls during which no PopForBlock has
\* returned the transaction.
C27_Deduplication ==
    /\ []PoolDeduplicated
    /\ [][AddLeavesHash]_vars
    /\ [][DuplicateOfAdded]_vars
    /\ [][\A t \in DOMAIN mempool.call :
             (/\ AddReturns(t)
              /\ mempool.call[t].rivalAdded
              /\ ~mempool.call[t].rivalPopped) =>
                 mempool.call[t].err = "duplicate tx"]_vars

\* two Add calls of the same transfer, signed twice, ran at the same time:
\* one has returned nil and the other the duplicate error
C27_Witness ==
    \E t, u \in DOMAIN mempool.call :
        /\ mempool.call[t].op = "Add" /\ mempool.call[u].op = "Add"
        /\ mempool.call[t].pc = "idle" /\ mempool.call[u].pc = "idle"
        /\ mempool.call[t].err = "nil"
        /\ mempool.call[u].err = "duplicate tx"
        /\ mempool.call[u].rivalAdded
        /\ mempool.call[t].tx.Hash = mempool.call[u].tx.Hash
        /\ mempool.call[t].tx.Signature # mempool.call[u].tx.Signature
        /\ Len(mempool.list) = 1

(***************************************************************************)
(* C28                                                                     *)
(***************************************************************************)
\* the elements of the list at the positions K, in the order of the list
RECURSIVE Kept(_, _, _)
Kept(list, K, i) ==
    IF i > Len(list) THEN <<>>
    ELSE (IF i \in K THEN <<list[i]>> ELSE <<>>) \o Kept(list, K, i + 1)

\* [state, err]: the working copy after the transactions at the positions of
\* K below i were applied in turn
RECURSIVE WorkingCopy(_, _, _, _, _, _)
WorkingCopy(state, list, K, i, producer, rule) ==
    IF i <= 1 THEN [state |-> state, err |-> "nil"]
    ELSE LET before == WorkingCopy(state, list, K, i - 1, producer, rule)
         IN IF (i - 1) \notin K \/ before.err # "nil" THEN before
            ELSE applyForProducer(before.state, list[i - 1], producer, rule)

\* the transaction at the position i applies to the working copy of its turn
AppliesInTurn(c, list, K, i) ==
    /\ WorkingCopy(c.state, list, K, i, c.producer, c.rule).err = "nil"
    /\ applyForProducer(WorkingCopy(c.state, list, K, i, c.producer, c.rule).state,
                        list[i], c.producer, c.rule).err = "nil"

\* K are the positions the call c takes from the list: at most max, each
\* applying in its turn, and every other position either failing in its turn
\* or reached after max were taken
Selection(c, list, K) ==
    /\ Cardinality(K) <= c.max
    /\ \A i \in K : AppliesInTurn(c, list, K, i)
    /\ \A i \in (1..Len(list)) \ K :
          \/ Cardinality({k \in K : k < i}) >= c.max
          \/ ~AppliesInTurn(c, list, K, i)

\* the pool is in its order: fee descending, then sender ascending, then
\* nonce ascending
PoolOrdered ==
    \A i \in 1..Len(mempool.list) : \A j \in (i + 1)..Len(mempool.list) :
        ~less(mempool.list[j], mempool.list[i])

\* the step is the loop of the PopForBlock of the caller t
PopRuns(t) ==
    /\ mempool.call[t].op = "PopForBlock"
    /\ mempool.call[t].pc = "locked"
    /\ mempool'.call[t].pc = "unlock"

\* the step is a PopForBlock of the caller t with max <= 0
PopRefused(t) ==
    /\ calls'.Mempool = calls.Mempool + 1
    /\ \A u \in DOMAIN mempool.call \ {t} : mempool'.call[u] = mempool.call[u]
    /\ mempool.call[t].pc = "idle"
    /\ mempool'.call[t].op = "PopForBlock"
    /\ mempool'.call[t].max <= 0

\* C28: the pool is kept in pool order; PopForBlock(state, max, producer)
\* returns at most max transactions, in pool order, each of which applied in
\* turn to the working copy of state; the transactions not returned failed to
\* apply in their turn or were reached after max were taken, and stay in the
\* pool in the same relative order; the returned and the remaining are
\* disjoint and together the pool before the call; with max <= 0 nothing is
\* returned and the pool is unchanged.
C28_BlockSelection ==
    /\ []PoolOrdered
    /\ [][\A t \in DOMAIN mempool.call :
             /\ PopRuns(t) =>
                   \E K \in SUBSET (1..Len(mempool.list)) :
                      /\ Selection(mempool.call[t], mempool.list, K)
                      /\ mempool'.call[t].out = Kept(mempool.list, K, 1)
                      /\ mempool'.list
                            = Kept(mempool.list, (1..Len(mempool.list)) \ K, 1)
                      /\ DOMAIN mempool'.byHash = HashesIn(mempool'.list)
             /\ PopRefused(t) =>
                   /\ mempool'.call[t].out = <<>>
                   /\ mempool'.call[t].pc = "idle"
                   /\ mempool'.list = mempool.list
                   /\ mempool'.byHash = mempool.byHash]_vars

\* a PopForBlock with max = 1 has returned one transaction of a pool of
\* three: the one of the higher fee failed to apply and stays first, the
\* other was reached after max was taken
C28_Witness ==
    \E t \in DOMAIN mempool.call :
        /\ mempool.call[t].op = "PopForBlock"
        /\ mempool.call[t].pc = "idle"
        /\ mempool.call[t].max = 1
        /\ Len(mempool.call[t].out) = 1
        /\ Len(mempool.list) = 2
        /\ mempool.list[1].Fee > mempool.call[t].out[1].Fee
        /\ mempool.list[2].Fee = mempool.call[t].out[1].Fee
        /\ applyForProducer(mempool.call[t].state, mempool.list[2],
                            mempool.call[t].producer, mempool.call[t].rule).err = "nil"

(***************************************************************************)
(* C29                                                                     *)
(***************************************************************************)
\* the block the step has inserted: the candidate updateCanonical is called on
Candidates == DOMAIN bc'.Blocks \ DOMAIN bc.Blocks

CandidateChain(h) == walkBack(bc'.Blocks, h, <<>>).chain

CandidateReorg(h) == computeReorgDepthAndSlot(bc.Chain, CandidateChain(h))

\* the candidate scores strictly better than the canonical tip
CandidateBetter(h) ==
    betterScore([Slot |-> bc'.Blocks[h].Slot,
                 CumulativeWeight |-> ChainWeight(bc', CandidateChain(h)),
                 Hash |-> h],
                [Slot |-> chainTipSlot(bc),
                 CumulativeWeight |-> ChainWeight(bc', bc.Chain),
                 Hash |-> bc.CanonicalTip])

\* what becomes of the candidate, the guards taken in the order
\* finalized-touch, depth, weight-delta
Outcome(h) ==
    IF ~CandidateBetter(h) THEN "not better"
    ELSE IF bc.FinalizedSlot > 0 /\ CandidateReorg(h).slot <= bc.FinalizedSlot
        THEN "finalized"
    ELSE IF CandidateReorg(h).depth > bc.Config.MaxReorgDepth THEN "depth"
    ELSE IF /\ bc.Config.MinReorgWeightDeltaP > 0
            /\ ChainWeight(bc', CandidateChain(h)) - ChainWeight(bc', bc.Chain)
                  < RequiredGain
        THEN "weight"
    ELSE "accepted"

\* the counters after the one call of updateCanonical on the candidate
CountersAfter(h) ==
    IF Outcome(h) = "finalized" THEN [bc.ReorgStats EXCEPT !.Critical = @ + 1]
    ELSE IF Outcome(h) \in {"depth", "weight"}
        THEN [bc.ReorgStats EXCEPT !.Error = @ + 1]
    ELSE IF Outcome(h) = "accepted" /\ CandidateReorg(h).depth = 1
        THEN [bc.ReorgStats EXCEPT !.Info = @ + 1]
    ELSE IF Outcome(h) = "accepted" /\ CandidateReorg(h).depth > 1
        THEN [bc.ReorgStats EXCEPT !.Warn = @ + 1]
    ELSE bc.ReorgStats

\* the step is a call of ResetReorgStats
ResetStep == calls'.ResetReorgStats # calls.ResetReorgStats

\* C29: one call of updateCanonical changes the reorg counters by at most one
\* increment of 1, the guards taken in the order finalized-touch, depth,
\* weight-delta: Critical exactly when the candidate is rejected for diverging
\* at or before a non-zero FinalizedSlot, Error exactly when it is rejected
\* for depth > MaxReorgDepth or for insufficient weight delta, Info exactly
\* when it is accepted with depth 1, Warn exactly when it is accepted with
\* depth > 1, and none when it is not strictly better or accepted with depth
\* 0; the candidate becomes the tip exactly when it is accepted; the counters
\* never decrease except through ResetReorgStats, and change only in a call
\* that reaches updateCanonical.
C29_ReorgCounters ==
    /\ [][\A h \in Candidates :
             /\ bc'.ReorgStats = CountersAfter(h)
             /\ bc'.CanonicalTip = h <=> Outcome(h) = "accepted"]_vars
    /\ [][Candidates = {} /\ ~ResetStep => bc'.ReorgStats = bc.ReorgStats]_vars
    /\ [][~ResetStep =>
             \A k \in DOMAIN bc.ReorgStats : bc'.ReorgStats[k] >= bc.ReorgStats[k]]_vars
    /\ [][ResetStep =>
             \A k \in DOMAIN bc.ReorgStats : bc'.ReorgStats[k] = 0]_vars

\* after a reset of the counters, a fork has been turned away for touching
\* the finalized slot and another one by the depth or the weight-delta guard
C29_Witness ==
    /\ calls.ResetReorgStats > 0
    /\ bc.ReorgStats.Critical > 0
    /\ bc.ReorgStats.Error > 0

(***************************************************************************)
(* C30                                                                     *)
(***************************************************************************)
MaxScoreWeight == 1
MaxScoreSlot == 1
MaxScoreHash == 3

\* the scores of the blocks of the DAG, and the scores of small weight, slot
\* and hash
Scores ==
    {scoreTip(bc, h).score : h \in DOMAIN bc.Blocks}
    \cup [Slot : 0..MaxScoreSlot, CumulativeWeight : 0..MaxScoreWeight,
          Hash : 1..MaxScoreHash]

\* betterScore is a strict total order on the scores of distinct hashes, the
\* weight before the slot and the slot before the hash, the smaller hash first
StrictTotalOrder ==
    \A S \in {Scores} :
        /\ \A a \in S : ~betterScore(a, a)
        /\ \A a, b \in S :
              /\ betterScore(a, b) => ~betterScore(b, a)
              /\ a.Hash # b.Hash => betterScore(a, b) \/ betterScore(b, a)
              /\ a.CumulativeWeight > b.CumulativeWeight => betterScore(a, b)
              /\ (a.CumulativeWeight = b.CumulativeWeight /\ a.Slot > b.Slot)
                    => betterScore(a, b)
              /\ (a.CumulativeWeight = b.CumulativeWeight /\ a.Slot = b.Slot
                  /\ a.Hash < b.Hash) => betterScore(a, b)
              /\ betterScore(a, b) =>
                    \A c \in S : betterScore(b, c) => betterScore(a, c)

\* the step is a call of GetForkCandidates
GetForkCandidatesStep == calls'.GetForkCandidates # calls.GetForkCandidates

\* the score the candidate stands for
ScoreOf(c) == [Slot |-> c.Slot, CumulativeWeight |-> c.CumulativeWeight, Hash |-> c.Hash]

\* the blocks of the DAG that are the parent of no block
Childless == {h \in DOMAIN bc.Blocks : \A k \in DOMAIN bc.Blocks : bc.Blocks[k].PrevHash # h}

\* C30: betterScore is a strict total order on scores with distinct hashes
\* (irreflexive, asymmetric, transitive, exactly one of betterScore(a, b) and
\* betterScore(b, a) for different hashes), weight before slot before hash,
\* the smaller hash winning; GetForkCandidates lists exactly the DAG blocks
\* without children, each once, sorted by this order, each with its slot, its
\* parent and the cumulative weight scoreTip gives it.
C30_ForkCandidates ==
    /\ []StrictTotalOrder
    /\ [][GetForkCandidatesStep =>
             /\ {ret'.candidates[i].Hash : i \in 1..Len(ret'.candidates)} = Childless
             /\ Len(ret'.candidates) = Cardinality(Childless)
             /\ \A i \in 1..Len(ret'.candidates) :
                   /\ ScoreOf(ret'.candidates[i])
                         = scoreTip(bc, ret'.candidates[i].Hash).score
                   /\ ret'.candidates[i].Parent
                         = bc.Blocks[ret'.candidates[i].Hash].PrevHash
                   /\ \A j \in (i + 1)..Len(ret'.candidates) :
                         betterScore(ScoreOf(ret'.candidates[i]),
                                     ScoreOf(ret'.candidates[j]))]_vars

\* GetForkCandidates has listed three tips, two of them of the same weight
C30_Witness ==
    /\ ret.op = "GetForkCandidates"
    /\ Len(ret.candidates) = 3
    /\ \E i, j \in 1..Len(ret.candidates) :
          /\ i # j
          /\ ret.candidates[i].CumulativeWeight = ret.candidates[j].CumulativeWeight

(***************************************************************************)
(* C31                                                                     *)
(***************************************************************************)
\* the arguments Tick is tried with
MaxTickArg == 3

\* every block of the DAG but genesis is at the tick of its slot, later than
\* its parent
BlocksOnSlotTicks ==
    \A h \in DOMAIN bc.Blocks :
        bc.Blocks[h].PrevHash # GENESIS =>
            /\ bc.Blocks[h].Tick = TicksPerSlot * bc.Blocks[h].Slot
            /\ bc.Blocks[h].PrevHash \in DOMAIN bc.Blocks
            /\ bc.Blocks[h].Tick > bc.Blocks[bc.Blocks[h].PrevHash].Tick

\* the tick and the slot check of VerifyPoH pass on every block of the
\* canonical chain after its parent
CanonicalTicksPass ==
    \A i \in 2..Len(bc.Chain) :
        VerifyPoH(bc.Chain[i - 1].PoHHash, bc.Chain[i - 1].Tick, bc.Chain[i]).err
            \notin {"tick not increasing", "slot mismatch"}

\* C31: the PoH tick counter never decreases and Tick(n) raises it by
\* exactly n; between the calls on the engine it is a multiple of
\* TicksPerSlot; every block of the DAG but genesis has Tick = TicksPerSlot *
\* Slot and a Tick greater than its parent's, so the tick and the slot check
\* of VerifyPoH pass on every parent and child of the canonical chain.
C31_TickAndSlot ==
    /\ [](bc.poh.CurrentTick % TicksPerSlot = 0)
    /\ [](\A n \in 0..MaxTickArg :
             Tick(bc.poh, n).CurrentTick = bc.poh.CurrentTick + n)
    /\ []BlocksOnSlotTicks
    /\ []CanonicalTicksPass
    /\ [][bc'.poh.CurrentTick >= bc.poh.CurrentTick]_vars

\* the canonical chain holds a block whose parent is more than one slot
\* before it, after a change of fork
C31_Witness ==
    /\ bc.ReorgStats.Info + bc.ReorgStats.Warn > 0
    /\ \E i \in 2..Len(bc.Chain) :
          /\ i > 2
          /\ bc.Chain[i].Slot > bc.Chain[i - 1].Slot + 1
          /\ bc.Chain[i].Tick = TicksPerSlot * bc.Chain[i].Slot

(***************************************************************************)
(* C32                                                                     *)
(***************************************************************************)
\* the engine without the lines logged by the call
Unlogged(b) == [b EXCEPT !.Logger = <<>>]

\* the production call that returned the frame r failed a precondition and
\* has changed nothing
EarlyFailureInert(r) == r.err \in EntryErrors => Unlogged(r.bc) = Unlogged(bc)

\* every production call that fails a precondition in this state changes
\* nothing
FailsEarly ==
    /\ \A txs \in TxLists : EarlyFailureInert(AddBlock(Entered(bc), txs, 1))
    /\ \A txs \in TxLists, prevHash \in DOMAIN bc.Blocks \cup {UnknownHash} :
          EarlyFailureInert(AddBlockExternal(Entered(bc), prevHash, txs, 1))

\* a production call has returned an error past its preconditions, the
\* equivocation error (returned with the block inserted) aside
FailsLate ==
    /\ AddBlockStep \/ AddBlockExternalStep
    /\ ret'.err \notin {"nil", "equivocation detected"} \cup EntryErrors

\* the chain, the DAG and what is derived from them are as before
ChainUntouched ==
    /\ bc'.Blocks = bc.Blocks
    /\ bc'.Parents = bc.Parents
    /\ bc'.CanonicalTip = bc.CanonicalTip
    /\ bc'.Chain = bc.Chain
    /\ bc'.State = bc.State
    /\ bc'.FinalizedSlot = bc.FinalizedSlot
    /\ bc'.LastProcessedSlot = bc.LastProcessedSlot
    /\ bc'.SlotProducers = bc.SlotProducers
    /\ bc'.ReorgStats = bc.ReorgStats

\* the slots the step examines for missed production that hold no block
EmptySlotsExamined ==
    {s \in (bc.LastProcessedSlot + 1)..bc'.LastProcessedSlot :
        \A h \in DOMAIN bc'.Blocks : bc'.Blocks[h].Slot # s}

\* the empty slot s is charged to its leader when the step examines it
EmptySlotCharged(s) ==
    \A acc \in {ExaminedSlots(bc', BeforeMissedSlots, bc.LastProcessedSlot + 1, s - 1)} :
        \A l \in {LeaderFromSnapshot(s, SnapshotAt(bc', s).Validators)} :
            /\ l # "genesis"
            /\ ExaminedSlot(bc', acc, s) = ChargedTo(acc, l, s)
            /\ bc'.Stats = ExaminedSlots(bc', ChargedTo(acc, l, s), s + 1,
                                         bc'.LastProcessedSlot).Stats

\* C32 as stated: a production call that fails a precondition (no validators,
\* unknown parent hash) changes nothing of the engine, the PoH included; one
\* that fails later leaves Blocks, Parents, CanonicalTip, Chain, State,
\* FinalizedSlot, LastProcessedSlot, SlotProducers and the reorg counters as
\* they were and the PoH one slot further, and the slot left without a block
\* is charged as missed to its leader when a later call examines it.
C32_Original ==
    /\ []FailsEarly
    /\ [][FailsLate =>
             /\ ChainUntouched
             /\ bc'.poh = Tick(bc.poh, TicksPerSlot)
             /\ Slot(bc'.poh) = Slot(bc.poh) + 1]_vars
    /\ [][((AddBlockStep \/ AddBlockExternalStep) /\ ret'.err = "nil") =>
             \A s \in EmptySlotsExamined : EmptySlotCharged(s)]_vars

\* the empty slot s is charged to its leader when the step examines it, and
\* to nobody when the snapshot of its epoch is empty
EmptySlotChargedToLeader(s) ==
    \A acc \in {ExaminedSlots(bc', BeforeMissedSlots, bc.LastProcessedSlot + 1, s - 1)} :
        \A l \in {LeaderFromSnapshot(s, SnapshotAt(bc', s).Validators)} :
            /\ l = "genesis" <=> DOMAIN SnapshotAt(bc', s).Validators = {}
            /\ ExaminedSlot(bc', acc, s)
                  = IF l = "genesis" THEN acc ELSE ChargedTo(acc, l, s)
            /\ bc'.Stats = ExaminedSlots(bc', ExaminedSlot(bc', acc, s), s + 1,
                                         bc'.LastProcessedSlot).Stats

\* C32: as C32_Original, the slot left without a block being charged to its
\* leader when the snapshot of its epoch is not empty, and to nobody when it
\* is.
C32_FailedProduction ==
    /\ []FailsEarly
    /\ [][FailsLate =>
             /\ ChainUntouched
             /\ bc'.poh = Tick(bc.poh, TicksPerSlot)
             /\ Slot(bc'.poh) = Slot(bc.poh) + 1]_vars
    /\ [][((AddBlockStep \/ AddBlockExternalStep) /\ ret'.err = "nil") =>
             \A s \in EmptySlotsExamined : EmptySlotChargedToLeader(s)]_vars

\* a call has failed at slot 1 on a transaction and the next one has moved
\* the tip to slot 2: the leader of slot 1 has a missed slot
C32_Witness ==
    /\ ret.op \in {"AddBlock", "AddBlockExternal"}
    /\ ret.err = "nil"
    /\ chainTipSlot(bc) = 2
    /\ bc.LastProcessedSlot = 2
    /\ \A h \in DOMAIN bc.Blocks : bc.Blocks[h].Slot # 1
    /\ \E l \in {LeaderFromSnapshot(1, SnapshotAt(bc, 1).Validators)} :
          /\ l \in DOMAIN bc.Stats
          /\ bc.Stats[l].MissedSlots > 0

(***************************************************************************)
(* C33                                                                     *)
(***************************************************************************)
\* the snapshots of the engine b once the epoch of the slot is referenced:
\* as they are when they hold the epoch, and with the epoch frozen from the
\* live registry of b otherwise
FrozenOnReference(b, slot) ==
    IF Frozen(b, slot) THEN b.snapshots
    ELSE MapPut(b.snapshots, epochForSlot(b, slot),
                [Epoch |-> epochForSlot(b, slot),
                 TotalStake |-> TotalOf([n \in snapshotMembers(b, epochForSlot(b, slot))
                                            |-> b.Validators[n].Stake]),
                 Validators |-> [n \in snapshotMembers(b, epochForSlot(b, slot))
                                    |-> b.Validators[n].Stake]])

\* the queries freeze the epoch they refer to: ScoreTip those of the blocks
\* of the tip's chain, GetEpochSnapshot that of its slot, GetForkCandidates
\* those of all blocks, WeightDeltaRequired that of the canonical tip's slot
QueriesFreeze ==
    /\ \A h \in DOMAIN bc.Blocks :
          /\ Frozen(scoreTip(bc, h).bc, bc.Blocks[h].Slot)
          /\ (\A k \in DOMAIN bc.Blocks : k # h => Frozen(bc, bc.Blocks[k].Slot))
                => scoreTip(bc, h).bc.snapshots
                      = FrozenOnReference(bc, bc.Blocks[h].Slot)
    /\ \A slot \in 0..MaxSnapshotSlot :
          snapshotForSlot(bc, slot).bc.snapshots = FrozenOnReference(bc, slot)
    /\ \A order \in RangeOrders(DOMAIN bc.Blocks) :
          \A h \in DOMAIN bc.Blocks :
             Frozen(GetForkCandidates(bc, order).bc, bc.Blocks[h].Slot)
    /\ weightDeltaRequired(bc, 0, 1).bc.snapshots
          = FrozenOnReference(bc, chainTipSlot(bc))

\* a snapshot, once created, is never changed or dropped, and the snapshot a
\* step creates is taken from the registry as it is before the step
FrozenOnce ==
    /\ \A e \in DOMAIN bc.snapshots :
          e \in DOMAIN bc'.snapshots /\ bc'.snapshots[e] = bc.snapshots[e]
    /\ \A e \in CreatedEpochs :
          bc'.snapshots[e].Validators
             = [n \in snapshotMembers(bc, e) |-> bc.Validators[n].Stake]

\* the producer of every block after genesis is a member of the snapshot of
\* the epoch of the block's slot
ProducersFrozen ==
    \A h \in DOMAIN bc.Blocks :
        bc.Blocks[h].PrevHash # GENESIS =>
            /\ Frozen(bc, bc.Blocks[h].Slot)
            /\ bc.Blocks[h].Validator \in DOMAIN SnapshotAt(bc, bc.Blocks[h].Slot).Validators

\* AddBlock fails in a slot whose epoch is frozen empty
EmptyEpochFails ==
    (/\ Frozen(bc, Slot(bc.poh) + 1)
     /\ DOMAIN SnapshotAt(bc, Slot(bc.poh) + 1).Validators = {})
    => AddBlock(Entered(bc), <<>>, 1).err # "nil"

\* C33: the snapshot of an epoch is created by the first operation that
\* refers to a slot of it, the queries ScoreTip, GetEpochSnapshot,
\* GetForkCandidates and WeightDeltaRequired included, from the live registry
\* as it is at that moment, and never changes afterwards; a validator that is
\* not in the snapshot of an epoch produces no block in it; after a query has
\* frozen an epoch empty, every AddBlock in that epoch fails.
C33_Original ==
    /\ []QueriesFreeze
    /\ [][FrozenOnce]_vars
    /\ []ProducersFrozen
    /\ []EmptyEpochFails

(***************************************************************************)
(* C34                                                                     *)
(***************************************************************************)
\* the blocks of the DAG after genesis
Produced == {h \in DOMAIN bc.Blocks : bc.Blocks[h].PrevHash # GENESIS}

\* any two blocks after genesis, on whatever fork, have different slots
SlotsUnique ==
    \A h, k \in Produced : h # k => bc.Blocks[h].Slot # bc.Blocks[k].Slot

\* the producers on record are those of the blocks, one for a slot
ProducersOnce ==
    /\ \A s \in DOMAIN bc.SlotProducers :
          /\ Cardinality(DOMAIN bc.SlotProducers[s]) = 1
          /\ \A v \in DOMAIN bc.SlotProducers[s] :
                /\ bc.SlotProducers[s][v] \in Produced
                /\ bc.Blocks[bc.SlotProducers[s][v]].Slot = s
                /\ bc.Blocks[bc.SlotProducers[s][v]].Validator = v
    /\ \A h \in Produced :
          /\ bc.Blocks[h].Slot \in DOMAIN bc.SlotProducers
          /\ bc.Blocks[h].Validator \in DOMAIN bc.SlotProducers[bc.Blocks[h].Slot]

\* the call takes one slot, in which there is no block yet
NewSlotTaken ==
    /\ Slot(bc'.poh) = Slot(bc.poh) + 1
    /\ \A h \in DOMAIN bc.Blocks : bc.Blocks[h].Slot < Slot(bc'.poh)
    /\ \A h \in DOMAIN bc'.Blocks \ DOMAIN bc.Blocks : bc'.Blocks[h].Slot = Slot(bc'.poh)

\* C34: every call of AddBlock or AddBlockExternal that passes its
\* preconditions takes exactly one new slot, so any two blocks of the DAG
\* after genesis, on whatever fork, have different slots; no (slot,
\* validator) pair is registered twice and the Equivocations list is empty in
\* every state reached through AddBlock and AddBlockExternal.
C34_SlotsUnique ==
    /\ []SlotsUnique
    /\ []ProducersOnce
    /\ [](bc.Equivocations = <<>>)
    /\ [][AddBlockStep \/ AddBlockExternalStep => NewSlotTaken]_vars
    /\ [][ret'.op \in {"AddBlock", "AddBlockExternal"} /\ ret'.err \notin EntryErrors
             /\ ret' # ret => bc'.poh # bc.poh]_vars

\* three blocks after genesis, two of them on the same parent
C34_Witness ==
    /\ Cardinality(Produced) >= 3
    /\ \E h, k \in Produced :
          h # k /\ bc.Blocks[h].PrevHash = bc.Blocks[k].PrevHash
    /\ bc.Equivocations = <<>>

(***************************************************************************)
(* C35                                                                     *)
(***************************************************************************)
\* the slot of the canonical tip of the engine b
TipSlot(b) == b.Blocks[b.CanonicalTip].Slot

\* C35: in one call the canonical tip stays the same or becomes the block
\* inserted by that very call, so a block that was in the DAG without being
\* the tip never becomes the tip later; at every change of the tip its slot
\* strictly increases.
C35_TipForward ==
    [][TipChanges =>
          /\ AddBlockStep \/ AddBlockExternalStep
          /\ bc'.CanonicalTip \in Candidates
          /\ bc'.CanonicalTip \notin DOMAIN bc.Blocks
          /\ TipSlot(bc') > TipSlot(bc)]_vars

\* the tip has moved to another fork over a block that lost the fork choice
\* when it was inserted and is still not canonical
C35_Witness ==
    /\ bc.ReorgStats.Info + bc.ReorgStats.Warn > 0
    /\ bc.ReorgStats.Error > 0
    /\ \E h \in DOMAIN bc.Blocks :
          /\ h \notin HashesOf(bc.Chain)
          /\ bc.Blocks[h].Slot < TipSlot(bc)

(***************************************************************************)
(* C36                                                                     *)
(***************************************************************************)
\* the engine b has frozen the epoch of every block from h back to genesis,
\* so that scoring h freezes nothing
Scored(b, h) == scoreTip(b, h).bc.snapshots = b.snapshots

\* the cumulative weight ScoreTip gives the block h in the engine b
WeightOf(b, h) == scoreTip(b, h).score.CumulativeWeight

\* C36: the cumulative snapshot weight of the canonical tip never decreases,
\* and with MinReorgWeightDeltaP > 0 it strictly increases at every change of
\* the tip, plain extensions included; the score (weight, slot, hash) of a
\* block of the DAG is the same after every step, once the epochs it is
\* computed from are frozen, as they are for every block after genesis.
C36_WeightMonotone ==
    /\ [][/\ WeightOf(bc', bc'.CanonicalTip) >= WeightOf(bc', bc.CanonicalTip)
          /\ (TipChanges /\ bc.Config.MinReorgWeightDeltaP > 0) =>
                WeightOf(bc', bc'.CanonicalTip) > WeightOf(bc', bc.CanonicalTip)]_vars
    /\ [][\A h \in DOMAIN bc.Blocks :
             Scored(bc, h) =>
                /\ h \in DOMAIN bc'.Blocks
                /\ Scored(bc', h)
                /\ scoreTip(bc', h).score = scoreTip(bc, h).score]_vars
    /\ [](\A h \in Produced : Scored(bc, h))

\* with MinReorgWeightDeltaP > 0 the tip has moved to another fork, and the
\* registry has changed since the epoch was frozen
C36_Witness ==
    /\ bc.Config.MinReorgWeightDeltaP > 0
    /\ bc.ReorgStats.Info + bc.ReorgStats.Warn > 0
    /\ \E h \in Produced :
          FrozenStake(bc, bc.Blocks[h]) # MapGet(LiveStakes(bc), bc.Blocks[h].Validator, 0)

(***************************************************************************)
(* C37                                                                     *)
(***************************************************************************)
MissingKey == "missing validator signing key"

\* the leader drawn by a production call entered in this state is a member of
\* the snapshot of the slot, and is not in the live registry or is there
\* without a signing key
LeaderCannotSign ==
    \A l \in {DrawnLeader(bc)} :
        /\ l \in DOMAIN SnapshotAt(Producing(bc), Slot(bc.poh) + 1).Validators
        /\ l \notin DOMAIN bc.Validators \/ bc.Validators[l].PrivKey = 0

\* the call that returned the frame r failed on the missing signing key with
\* no block inserted, the tip where it was, and the slot consumed
SlotLostToMissingKey(r) ==
    /\ r.err = MissingKey
    /\ r.bc.Blocks = bc.Blocks
    /\ r.bc.Parents = bc.Parents
    /\ r.bc.CanonicalTip = bc.CanonicalTip
    /\ r.bc.Chain = bc.Chain
    /\ Slot(r.bc.poh) = Slot(bc.poh) + 1

\* the transactions pass VerifyTransactions and apply on the state
Applies(state, txs) ==
    VerifyTransactions(txs) = "nil" /\ ApplyTransactions(state, txs).err = "nil"

\* every call of AddBlock, and of AddBlockExternal on a known parent, whose
\* transactions pass the checks made before the block is signed, loses the
\* slot to the missing signing key
EveryCallLosesSlot ==
    \A txs \in TxLists :
       /\ Applies(bc.State, txs) =>
             SlotLostToMissingKey(AddBlock(Entered(bc), txs, 1))
       /\ \A h \in DOMAIN bc.Blocks :
             \A st \in {stateAtTip(bc, h)} :
                (st.err = "nil" /\ Applies(st.state, txs)) =>
                   SlotLostToMissingKey(AddBlockExternal(Entered(bc), h, txs, 1))

\* the claim as stated: in every state where the leader the snapshot gives
\* the next slot cannot sign, every production call that reaches the signing
\* of the block loses the slot to the missing signing key
C37_Original == LeaderCannotSign => EveryCallLosesSlot

\* with an empty registry every production call is refused before the ticker
\* moves
RefusedOnEmptyRegistry ==
    \A txs \in TxLists :
       /\ \A r \in {AddBlock(Entered(bc), txs, 1)} :
             r.err = "no validators available" /\ r.bc.poh = bc.poh
       /\ \A h \in DOMAIN bc.Blocks :
             \A r \in {AddBlockExternal(Entered(bc), h, txs, 1)} :
                r.err = "no validators available" /\ r.bc.poh = bc.poh

\* C37: in every reachable state where the registry is not empty and the
\* snapshot leader drawn for the next slot is not in the live registry or has
\* no signing key, a call of AddBlock, and a call of AddBlockExternal on any
\* known parent, with transactions that verify and apply, returns the
\* missing-signing-key error, inserts no block, leaves the canonical tip and
\* chain unchanged and consumes the slot; with an empty registry the call
\* returns "no validators available" and the ticker stays where it was.
C37_MissingLeader ==
    /\ (LeaderCannotSign /\ DOMAIN bc.Validators # {}) => EveryCallLosesSlot
    /\ DOMAIN bc.Validators = {} => RefusedOnEmptyRegistry

\* a production call has just lost a slot to the missing signing key of a
\* leader the snapshot holds and the live registry has lost, and the next
\* draw selects that leader again
C37_Witness ==
    /\ ret.op \in {"AddBlock", "AddBlockExternal"}
    /\ ret.err = MissingKey
    /\ DOMAIN bc.Validators # {}
    /\ \E l \in {DrawnLeader(bc)} :
          /\ l \notin DOMAIN bc.Validators
          /\ l \in DOMAIN SnapshotAt(bc, Slot(bc.poh)).Validators
          /\ Frozen(bc, Slot(bc.poh) + 1)
          /\ l \in DOMAIN SnapshotAt(bc, Slot(bc.poh) + 1).Validators

(***************************************************************************)
(* C38                                                                     *)
(***************************************************************************)
\* State is the replay of the canonical chain from the Genesis balances, and
\* has the state root of the canonical tip when the tip is not genesis
FollowsCanonical(b) ==
    /\ Replayed(b.Genesis, b.Chain) = [state |-> b.State, err |-> "nil"]
    /\ InSync(b)
    /\ Len(b.Chain) > 1 => StateRoot(b.State) = b.Blocks[b.CanonicalTip].StateRoot

\* the step is a call of SetBalance
SetBalanceStep == calls'.SetBalance # calls.SetBalance

\* a production call has advanced the PoH
ProductionAttempted == bc.poh.CurrentTick > 0

\* C38: State follows the canonical chain (it is the replay of the canonical
\* blocks' transactions from the Genesis balances, with the state root of the
\* tip when the tip is not genesis) after construction, and after every step
\* taken from a state where it does, reorgs included, other than a call of
\* SetBalance made after a production call has advanced the PoH; hence in
\* every state of a run whose SetBalance calls all come before the first
\* production attempt.  Genesis changes only in a call of SetBalance on a
\* canonical chain that holds just the genesis block.
C38_StateFollowsCanonical ==
    /\ FollowsCanonical(bc)
    /\ [][(FollowsCanonical(bc) /\ ~(SetBalanceStep /\ ProductionAttempted))
             => FollowsCanonical(bc')]_vars
    /\ [][bc'.Genesis # bc.Genesis => (SetBalanceStep /\ Len(bc.Chain) <= 1)]_vars

\* balances were set before production, transfers were made, the tip has
\* moved to another fork, and the State differs from the Genesis balances
C38_Witness ==
    /\ FollowsCanonical(bc)
    /\ calls.SetBalance > 0
    /\ bc.Genesis # EmptyMap
    /\ bc.State # bc.Genesis
    /\ bc.ReorgStats.Info + bc.ReorgStats.Warn > 0

(***************************************************************************)
(* C39                                                                     *)
(***************************************************************************)
\* the step is a call of RestoreFromStorage on the running engine
RestoreStep == calls'.RestoreFromStorage # calls.RestoreFromStorage

\* the blocks GetRange(0, tip.Index) returns from the store before the step
RangeOfTip == GetRange(store.blockStore, 0, GetTip(store.blockStore).block.Index)

\* the store holds a tip and serves the range up to it
Restorable ==
    /\ GetTip(store.blockStore).ok
    /\ RangeOfTip.err = "nil"

RangeBlocks == {RangeOfTip.blocks[i] : i \in 1..Len(RangeOfTip.blocks)}

\* Blocks and Parents hold exactly the blocks of the range
IndexIsRange ==
    /\ DOMAIN bc'.Blocks = {b.Hash : b \in RangeBlocks}
    /\ DOMAIN bc'.Parents = DOMAIN bc'.Blocks
    /\ \A b \in RangeBlocks : bc'.Blocks[b.Hash] = b /\ bc'.Parents[b.Hash] = b.PrevHash

\* the tip is the tip of the store; the chain, the slot-producer map and the
\* State are derived from it
DerivedFromTip ==
    /\ bc'.CanonicalTip = GetTip(store.blockStore).block.Hash
    /\ bc'.Chain = ChainTo(bc', bc'.CanonicalTip)
    /\ DOMAIN bc'.SlotProduced = {bc'.Chain[i].Slot : i \in 2..Len(bc'.Chain)}
    /\ \A i \in 2..Len(bc'.Chain) :
          (\A j \in (i + 1)..Len(bc'.Chain) : bc'.Chain[j].Slot # bc'.Chain[i].Slot)
             => bc'.SlotProduced[bc'.Chain[i].Slot] = bc'.Chain[i].Validator
    /\ bc'.State = Replayed(bc.Genesis, bc'.Chain).state

\* what no restore touches: the registry, the stats, the PoH, the epochs
\* already frozen; the finalized slot is not lowered
RegistryAndEpochsKept ==
    /\ bc'.Validators = bc.Validators
    /\ bc'.Stats = bc.Stats
    /\ bc'.poh = bc.poh
    /\ bc'.Genesis = bc.Genesis
    /\ bc'.FinalizedSlot >= bc.FinalizedSlot
    /\ \A e \in DOMAIN bc.snapshots :
          e \in DOMAIN bc'.snapshots /\ bc'.snapshots[e] = bc.snapshots[e]

\* the chain in memory is as it was
ChainInMemoryKept ==
    /\ bc'.Blocks = bc.Blocks
    /\ bc'.Parents = bc.Parents
    /\ bc'.CanonicalTip = bc.CanonicalTip
    /\ bc'.Chain = bc.Chain
    /\ bc'.State = bc.State
    /\ bc'.SlotProduced = bc.SlotProduced
    /\ bc'.FinalizedSlot = bc.FinalizedSlot

\* C39: a call of RestoreFromStorage on a store that has a tip replaces Blocks
\* and Parents with exactly the blocks returned by GetRange(0, tip.Index),
\* sets CanonicalTip to the hash of the store's tip and derives Chain, the
\* slot-producer map and State from it; it leaves the validators, the stats,
\* the PoH and every epoch snapshot already recorded unchanged and does not
\* lower FinalizedSlot; on a store without a tip the chain in memory is
\* unchanged.
C39_Original ==
    [][RestoreStep =>
          /\ RegistryAndEpochsKept
          /\ Restorable => (IndexIsRange /\ DerivedFromTip)
          /\ ~GetTip(store.blockStore).ok => ChainInMemoryKept]_vars

(***************************************************************************)
(* C40                                                                     *)
(***************************************************************************)
\* the engine was built by NewNode and holds a canonical chain that reaches
\* genesis, with a tip at a slot N >= 1 and at tick TicksPerSlot * N
RestoredTip ==
    /\ calls.NewNode > 0
    /\ Len(bc.Chain) > 1
    /\ bc.Chain[1].PrevHash = GENESIS
    /\ TipSlot(bc) >= 1
    /\ TipBlock(bc).Tick = TicksPerSlot * TipSlot(bc)

\* the slots of the chain do not go back, no two blocks after genesis share a
\* slot, and the tick and the slot check of VerifyPoH pass along the chain
ChainOrdered(chain) ==
    /\ \A i \in 2..Len(chain) : chain[i].Slot >= chain[i - 1].Slot
    /\ \A i, j \in 2..Len(chain) : i # j => chain[i].Slot # chain[j].Slot
    /\ \A i \in 2..Len(chain) :
          VerifyPoH(chain[i - 1].PoHHash, chain[i - 1].Tick, chain[i]).err
             \notin {"tick not increasing", "slot mismatch"}

\* the step is a call of AddBlock that has produced a block
BlockProduced ==
    /\ AddBlockStep
    /\ ret'.err = "nil"
    /\ DOMAIN bc'.Blocks # DOMAIN bc.Blocks

\* C40: in an engine that NewNode has restored from the store with a
\* canonical tip at slot N >= 1 and tick TicksPerSlot * N, every block that
\* AddBlock produces on the tip has a slot >= N and a tick greater than the
\* tip's, and the canonical chain after the call has slots that do not go
\* back, at most one block per slot, and ticks that pass VerifyPoH.
C40_Original ==
    [][(RestoredTip /\ ChainOrdered(bc.Chain) /\ BlockProduced) =>
          /\ \A h \in DOMAIN bc'.Blocks \ DOMAIN bc.Blocks :
                /\ bc'.Blocks[h].PrevHash = bc.CanonicalTip
                /\ bc'.Blocks[h].Slot >= TipSlot(bc)
                /\ bc'.Blocks[h].Tick > TipBlock(bc).Tick
          /\ ChainOrdered(bc'.Chain)]_vars

====
